---- MODULE Spec2Model ----
(***************************************************************************)
(* Verification model of the anti-power sidebar/manager patches:            *)
(*   - the change scheduler          (sidebar-panel/scan.js)                *)
(*   - the KaTeX loader and renderer (sidebar-panel/math.js)                *)
(*   - the Mermaid loader/renderer   (mermaid.js, src/unnamed/part_007)     *)
(* The browser is modelled as a single-threaded event loop: a task runs to  *)
(* completion, promise continuations are microtasks that are drained in     *)
(* FIFO order after the task, and animation-frame callbacks requested       *)
(* before a frame run in that frame with a microtask checkpoint after each. *)
(***************************************************************************)
EXTENDS Integers, Sequences, FiniteSets, TLC

None == "none"

\* null for the variables that hold an observer or a timer
Null == [kind |-> "null", id |-> 0, root |-> None]

\* ------------------------------------------------------------------------
\* Bounds of the model
\* ------------------------------------------------------------------------
MaxBinds == 2
MaxRaf == 2
MaxBatches == 1

\* ------------------------------------------------------------------------
\* The document the scheduler looks at
\* ------------------------------------------------------------------------
\* Two elements that can match PANEL_SELECTOR (the host replaces one by the
\* other when it remounts the side panel).
Roots == {"p1", "p2"}

\* Nodes a mutation can be reported for.  Each is described by what
\* closest() finds above it: panel, content container, section.
Targets == {"tContent", "tText", "tSection", "tBare", "tLoose", "tOther"}

IsTextNode(t) == t = "tText"

ParentElement(t) == IF t = "tText" THEN "tContent" ELSE None

PanelOf(t) ==
    CASE t \in {"tContent", "tSection", "tBare"} -> "p1"
      [] t = "tOther" -> "p2"
      [] OTHER -> None

ClosestContent(t) ==
    CASE t = "tContent" -> "c1"
      [] t = "tOther" -> "c2"
      [] OTHER -> None

ClosestSection(t) ==
    CASE t \in {"tContent", "tSection"} -> "s1"
      [] OTHER -> None

ScanNodes == {"c1", "s1", "c2"} \cup Roots

\* The scan node the host takes out of its panel and puts back
Detachable == {"c1"}

NodePanel(n) ==
    CASE n \in {"c1", "s1", "p1"} -> "p1"
      [] OTHER -> "p2"

VARIABLES
    \* scan.js module state
    config, activeRoot, activeObserver, feedbackTimer, rootCheckTimer,
    pendingNodes, scheduled,
    \* the browser around it
    docPanel,        \* element document.querySelector(PANEL_SELECTOR) returns
    detached,        \* scan nodes the host removed from their panel
    liveObservers,   \* observers created and not disconnected
    liveTimers,      \* interval timers created and not cleared
    rafQueue,        \* flushScan callbacks requested for the next frame
    frameRun,        \* callbacks of the running frame still to be invoked
    nextId,          \* identity of the next observer/timer object
    \* history
    frameScans,      \* scanClassic calls per node in the current frame
    frameFlushes,    \* flushScan calls in the current frame
    batchesSinceFrame, rebindSinceFrame, fullScans,
    frameClean,      \* no bindRoot switch between the previous frame and this one
    feedbackScans,   \* roots the feedback pass has visited, attached or not
    skippedNodes,    \* history: pending roots the latest flush left unscanned,
                     \* kept until the next batch or rebind
    staleQueued      \* history: roots pending at a cleanup, until the frame after it ends

scanVars == << config, activeRoot, activeObserver, feedbackTimer, rootCheckTimer,
               pendingNodes, scheduled, docPanel, detached, liveObservers,
               liveTimers, rafQueue, frameRun, nextId, frameScans, frameFlushes,
               batchesSinceFrame, rebindSinceFrame, fullScans, frameClean,
               feedbackScans, skippedNodes, staleQueued >>

\* ------------------------------------------------------------------------
\* sidebar-panel/math.js: state
\* ------------------------------------------------------------------------
MaxLoads == 3
MaxInflight == 2
MaxRev == 2

MathEls == {"m1", "m2"}

\* What a content element's textContent is: the host's revision of the
\* markdown, and whether the pass has replaced its math by typeset output.
Kind(rev) ==
    CASE rev % 4 = 0 -> "inline"   \* $x$: the typeset text has no hint left
      [] rev % 4 = 1 -> "env"      \* $$\begin{..}$$: the annotation keeps \begin{
      [] rev % 4 = 2 -> "plain"    \* no math at all
      [] OTHER -> "open"           \* a lone $$: a hint, but no token

NoText == [rev |-> -1, typeset |-> FALSE]

\* MATH_HINT_RE.test(text)
MathHint(t) ==
    \/ Kind(t.rev) = "inline" /\ ~t.typeset
    \/ Kind(t.rev) \in {"env", "open"}

\* textContent after renderMathIntoElement
Typeset(t) ==
    IF Kind(t.rev) \in {"inline", "env"} THEN [t EXCEPT !.typeset = TRUE] ELSE t

VARIABLES
    katexLoaded, katexLoading,
    windowKatex,     \* window.katex is defined
    loadStage,       \* per load: unused / style / script / reload / true / false
    loadsStarted,    \* loads created so far; load ids are 1..loadsStarted
    awaiting,        \* ensureKatex callers suspended at `await katexLoading`
    microtasks,      \* continuations that are ready, in FIFO order
    draining,        \* the microtask checkpoint after a task is under way
    mathText, mathAttr, mathSnapshot, rawText, mathAttached,
    lastCall,        \* history: the element of the last renderMath call; n flips per call
    renderedText,    \* history: the element's text when a pass last succeeded
    failText         \* history: the element's text when a pass last failed, no success since

mathVars == << katexLoaded, katexLoading, windowKatex, loadStage, loadsStarted,
               awaiting, microtasks, draining, mathText, mathAttr, mathSnapshot,
               rawText, mathAttached, lastCall, renderedText, failText >>

\* ------------------------------------------------------------------------
\* mermaid.js: state
\* ------------------------------------------------------------------------
MaxAttempts == 3
MaxDiagInflight == 2

DiagEls == {"d1", "d2"}

\* What extractMermaidSource can return for a diagram node ("" when empty)
Sources == {"", "A", "B"}

\* The diagram node the host removes
DiagDetachable == {"d1"}

NoContainer == [exists |-> FALSE, content |-> "", hidden |-> FALSE, source |-> ""]

VARIABLES
    mermaidReady, mermaidReadyPromise, mermaidIdCounter,
    windowMermaid,   \* window.mermaid is defined
    dLoad,           \* the loadScript call of ensureMermaid: none/pending/ok/failed
    dLoads,          \* history: loadScript calls made by ensureMermaid
    dSource,         \* the node's source text in the document
    dSourceProp,     \* root[MERMAID_SOURCE_PROP]
    dAttr,           \* root has MERMAID_ATTR = "1"
    dErrorProp,      \* root[MERMAID_ERROR_PROP]
    dRendering,      \* root[MERMAID_RENDERING_PROP]
    dHidden,         \* root.style.display is "none"
    dContainer,      \* the MERMAID_CONTAINER_CLASS sibling after the node
    dAttached,
    dInflight,       \* renderMermaid calls suspended at an await
    dAttempts,       \* history: calls that went past the guards
    dLastCall,       \* history: the node of the last call, whether a render of
                     \* it was in flight then; n flips per call
    dLastEnd,        \* history: how the last attempt ended; n flips per end
    dLastFail        \* history: source of the latest attempt, if it failed

mermaidVars == << mermaidReady, mermaidReadyPromise, mermaidIdCounter,
                  windowMermaid, dLoad, dLoads, dSource, dSourceProp, dAttr,
                  dErrorProp, dRendering, dHidden, dContainer, dAttached,
                  dInflight, dAttempts, dLastCall, dLastEnd, dLastFail >>

\* ------------------------------------------------------------------------
\* sidebar-panel/math.js: the delimiter scan over one text run
\* ------------------------------------------------------------------------
MaxLen == 5

\* The characters a text run is made of: the dollar sign, the backslash,
\* white space, a letter and the brackets of \( \) \[ \]
Chars == {"$", "\\", " ", "a", "(", ")", "[", "]"}

Texts == UNION {[1..n -> Chars] : n \in 0..MaxLen}

DELIMITERS ==
    << [left |-> << "$", "$" >>, right |-> << "$", "$" >>, display |-> TRUE],
       [left |-> << "\\", "[" >>, right |-> << "\\", "]" >>, display |-> TRUE],
       [left |-> << "\\", "(" >>, right |-> << "\\", ")" >>, display |-> FALSE],
       [left |-> << "$" >>, right |-> << "$" >>, display |-> FALSE] >>

\* findNextDelimiter's `match = null`
NoMatch == [index |-> -1, k |-> 0]

VARIABLES
    runText,         \* the text run handed to the scan
    tokens,          \* what splitWithDelimiters returned for it
    found,           \* [start, match]: a findNextDelimiter call and its result
    splitPc          \* "text": nothing called yet; "split" / "find": called

splitVars == << runText, tokens, found, splitPc >>

\* ------------------------------------------------------------------------
\* sidebar-panel/math.js: the pass over the child nodes of a content element
\* ------------------------------------------------------------------------
MaxKids == 3
MaxPasses == 2

\* A node: a text node (text), an em / strong element (kids: the nodes in
\* it), a code element, or a math container made by the pass (token: the
\* math token it was made for, out: what it holds, text: its text content).
NoToken ==
    [type |-> "none", data |-> << >>, display |-> FALSE,
     left |-> << >>, right |-> << >>]

Node(kind, text, kidNodes, token, out) ==
    [kind |-> kind, text |-> text, kids |-> kidNodes, token |-> token, out |-> out]

TextNode(t) == Node("text", t, << >>, NoToken, "")

\* Text the engine's output reads as; it holds no delimiter
EngineText == << "K" >>

\* What the host's markdown layer puts into a content element
HostTexts == { << "$", "a" >>, << "$" >>, << "$", "a", "$" >> }

EmTexts == { << "b" >>, << "\\", "(", "a", "\\", ")" >> }

HostNodes ==
    {TextNode(t) : t \in HostTexts}
       \cup {Node("em", << >>, << TextNode(t) >>, NoToken, "") : t \in EmTexts}
       \cup {Node("strong", << >>, << TextNode(<< "b" >>) >>, NoToken, ""),
             Node("code", << "$", "a", "$" >>, << >>, NoToken, "")}

VARIABLES
    kids,            \* el.childNodes
    appended,        \* nodes the host has put into el so far
    hostKids,        \* history: el.childNodes when the last pass began
    passes,          \* passes run so far
    passMark,        \* el's MATH_ATTR and text snapshot
    rescanned        \* history: a pass made a token out of fallback text

passVars == << kids, appended, hostKids, passes, passMark, rescanned >>

\* ------------------------------------------------------------------------
\* cascade-panel.js and the sidebar entry: loadConfig
\* ------------------------------------------------------------------------
Panels == {"cascade", "sidebar"}

\* JSON values are written as their source text
DEFAULT_CONFIG(panel) ==
    IF panel = "cascade"
       THEN [mermaid |-> "true", math |-> "true", copyButton |-> "true",
             tableColor |-> "true", fontSizeEnabled |-> "true", fontSize |-> "16"]
       ELSE [mermaid |-> "true", math |-> "true", copyButton |-> "true",
             tableColor |-> "true", maxWidthEnabled |-> "false",
             maxWidthRatio |-> "75", fontSizeEnabled |-> "true",
             fontSize |-> "16", copyButtonSmartHover |-> "true",
             copyButtonShowBottom |-> "'float'", copyButtonStyle |-> "'icon'",
             copyButtonCustomText |-> "''"]

\* Fields a config.json may supply: two known keys and an unknown one
SuppliedKeys == {"math", "fontSize", "theme"}

SuppliedValues == {"true", "false", "null", "12"}

NoFields == [k \in {} |-> "null"]

\* What res.json() can resolve to: kind is the JSON kind of the value, own its
\* own enumerable properties (what a spread copies)
JsonValues ==
    {[kind |-> k, own |-> NoFields] : k \in {"null", "false", "true", "zero",
                                              "number", "empty"}}
    \cup {[kind |-> "string", own |-> [k \in {"0"} |-> "'a'"]],
          [kind |-> "array", own |-> NoFields],
          [kind |-> "array", own |-> [k \in {"0"} |-> "true"]]}
    \cup {[kind |-> "object", own |-> f] :
            f \in UNION {[S -> SuppliedValues] : S \in SUBSET SuppliedKeys}}

NoJson == [kind |-> "none", own |-> NoFields]

VARIABLES
    cfgPanel,     \* which entry module runs
    cfgPc,        \* idle / fetch / json / done
    cfgCause,     \* history: how the load went: reject, notok, invalid, parsed
    cfgData,      \* history: the parsed body, if any
    cfgResult     \* what loadConfig resolved to

cfgVars == << cfgPanel, cfgPc, cfgCause, cfgData, cfgResult >>

\* ------------------------------------------------------------------------
\* cascade-panel/extract.js: state
\* ------------------------------------------------------------------------
MaxExtracts == 2
MaxItems == 3
MaxRows == 3
MaxBlank == 5

VARIABLES
    tree,          \* the tree handed to extractFormattedContent
    treeBefore,    \* history: the tree as it was before the first call
    intermediate,  \* history: what extractNodeContent returned in the last call
    output,        \* the text the last call returned
    prevOutput,    \* history: the text the call before it returned
    extracts       \* calls made on this tree

extractVars == << tree, treeBefore, intermediate, output, prevOutput, extracts >>

notScan == << mathVars, mermaidVars, splitVars, passVars, cfgVars, extractVars >>
notMath == << scanVars, mermaidVars, splitVars, passVars, cfgVars, extractVars >>
notMermaid == << scanVars, mathVars, splitVars, passVars, cfgVars, extractVars >>
notSplit == << scanVars, mathVars, mermaidVars, passVars, cfgVars, extractVars >>
notPass == << scanVars, mathVars, mermaidVars, splitVars, cfgVars, extractVars >>
notConfig == << scanVars, mathVars, mermaidVars, splitVars, passVars, extractVars >>
notExtract == << scanVars, mathVars, mermaidVars, splitVars, passVars, cfgVars >>

vars == << scanVars, mathVars, mermaidVars, splitVars, passVars, cfgVars,
           extractVars >>

isConnected(n) == NodePanel(n) = docPanel /\ n \notin detached

ScanInit ==
    /\ config \in [copyButton : BOOLEAN]
    /\ activeRoot = None
    /\ activeObserver = Null
    /\ feedbackTimer = Null
    /\ rootCheckTimer = Null
    /\ pendingNodes = {}
    /\ scheduled = FALSE
    /\ docPanel \in Roots \cup {None}
    /\ detached = {}
    /\ liveObservers = {}
    /\ liveTimers = {}
    /\ rafQueue = 0
    /\ frameRun = 0
    /\ nextId = 1
    /\ frameScans = [n \in ScanNodes |-> 0]
    /\ frameFlushes = 0
    /\ batchesSinceFrame = 0
    /\ rebindSinceFrame = FALSE
    /\ fullScans = {}
    /\ frameClean = TRUE
    /\ feedbackScans = {}
    /\ skippedNodes = {}
    /\ staleQueued = {}

\* cleanupActiveWatchers: the observers/timers left alive, as a record
cleanupKeepsObserver ==
    [observers |-> liveObservers,
     timers |-> liveTimers \ {feedbackTimer},
     pending |-> {}, sched |-> FALSE]

cleanupKeepsPending ==
    [observers |-> liveObservers \ {activeObserver},
     timers |-> liveTimers \ {feedbackTimer},
     pending |-> pendingNodes, sched |-> FALSE]

cleanupActiveWatchers ==
    [observers |-> liveObservers \ {activeObserver},
     timers |-> liveTimers \ {feedbackTimer},
     pending |-> {}, sched |-> FALSE]

\* resolveScanRoot(target)
resolveSectionFirst(target) ==
    IF activeRoot = None \/ target = None THEN None
    ELSE LET current == IF IsTextNode(target) THEN ParentElement(target) ELSE target
         IN  IF current = None \/ PanelOf(current) = None THEN None
             ELSE IF ClosestSection(current) # None THEN ClosestSection(current)
             ELSE IF ClosestContent(current) # None THEN ClosestContent(current)
             ELSE activeRoot

resolveScanRoot(target) ==
    IF activeRoot = None \/ target = None THEN None
    ELSE LET current == IF IsTextNode(target) THEN ParentElement(target) ELSE target
         IN  IF current = None \/ PanelOf(current) = None THEN None
             ELSE IF ClosestContent(current) # None THEN ClosestContent(current)
             ELSE IF ClosestSection(current) # None THEN ClosestSection(current)
             ELSE activeRoot

\* bindRoot line 157: the roots that get bound
bindOnlyFirst(root) == root # None /\ activeRoot = None

shouldBind(root) == root # None /\ root # activeRoot

\* bindRoot(root), reached from tryBind in init and in the 1500 ms timer
bindRoot(root) ==
    /\ shouldBind(root)
    /\ nextId <= MaxBinds
    /\ LET c == cleanupActiveWatchers
           obs == [kind |-> "observer", id |-> nextId, root |-> root]
           tmr == [kind |-> "feedback", id |-> nextId, root |-> root]
       IN  /\ activeRoot' = root
           /\ pendingNodes' = c.pending
           /\ scheduled' = c.sched
           /\ activeObserver' = obs
           /\ liveObservers' = c.observers \cup {obs}
           /\ IF config.copyButton
                 THEN feedbackTimer' = tmr /\ liveTimers' = c.timers \cup {tmr}
                 ELSE feedbackTimer' = Null /\ liveTimers' = c.timers
           /\ fullScans' = IF isConnected(root) THEN fullScans \cup {root} ELSE fullScans
    /\ nextId' = nextId + 1
    /\ feedbackScans' = IF config.copyButton
                            THEN feedbackScans \cup {<< root, isConnected(root) >>}
                            ELSE feedbackScans
    /\ rebindSinceFrame' = TRUE
    /\ staleQueued' = staleQueued \cup pendingNodes
    /\ skippedNodes' = {}
    /\ UNCHANGED << config, docPanel, detached, rafQueue, frameRun, frameScans,
                    frameFlushes, batchesSinceFrame, frameClean >>

\* init(): tryBind once, then start the root-check interval
init ==
    /\ rootCheckTimer = Null
    /\ frameRun = 0
    /\ rootCheckTimer' = [kind |-> "rootCheck", id |-> 0, root |-> None]
    /\ IF shouldBind(docPanel) /\ nextId <= MaxBinds
          THEN bindRoot(docPanel)
          ELSE UNCHANGED << config, activeRoot, activeObserver, feedbackTimer,
                            pendingNodes, scheduled, docPanel, detached,
                            liveObservers, liveTimers, rafQueue, frameRun, nextId,
                            frameScans, frameFlushes, batchesSinceFrame,
                            rebindSinceFrame, fullScans, frameClean,
                            feedbackScans, skippedNodes, staleQueued >>
    /\ UNCHANGED notScan

\* the 1500 ms interval: tryBind()
RootCheckTick ==
    /\ rootCheckTimer # Null
    /\ frameRun = 0
    /\ bindRoot(docPanel)
    /\ UNCHANGED rootCheckTimer
    /\ UNCHANGED notScan

\* scheduleScan(nodes), called by the observer callback with a non-empty list
scheduleScan(nodes) ==
    LET roots == {resolveScanRoot(t) : t \in nodes} \ {None}
        hasElements == roots # {}
    IN  /\ pendingNodes' = pendingNodes \cup roots
        /\ IF hasElements /\ ~scheduled
              THEN scheduled' = TRUE /\ rafQueue' = rafQueue + 1
              ELSE UNCHANGED << scheduled, rafQueue >>
        /\ batchesSinceFrame' =
              IF hasElements /\ batchesSinceFrame < MaxBatches
                 THEN batchesSinceFrame + 1 ELSE batchesSinceFrame
        /\ staleQueued' = staleQueued \ roots
        /\ skippedNodes' = {}

\* Nodes an observer on root can report: the subtree of root, and nodes that
\* were added under it and taken out again before delivery.
Reportable(root) ==
    {t \in Targets :
        PanelOf(IF IsTextNode(t) THEN ParentElement(t) ELSE t) \in {root, None}}

\* The MutationObserver callback of the live observer (a microtask)
ObserverCallback ==
    /\ rafQueue < MaxRaf
    /\ \E o \in liveObservers :
          \E nodes \in (SUBSET Reportable(o.root)) \ {{}} : scheduleScan(nodes)
    /\ UNCHANGED << config, activeRoot, activeObserver, feedbackTimer,
                    rootCheckTimer, docPanel, detached, liveObservers, liveTimers,
                    frameRun, nextId, frameScans, frameFlushes, rebindSinceFrame,
                    fullScans, frameClean, feedbackScans >>
    /\ UNCHANGED notScan

\* flushScan line 121-123 and scanClassic line 63: the nodes that are scanned
scanAllPending(nodes) == nodes

scannedNodes(nodes) == {n \in nodes : isConnected(n)}

\* flushScan(): the animation-frame callback
flushScan(first) ==
    LET nodes == pendingNodes
        scannedNow == scannedNodes(nodes)
    IN  /\ scheduled' = FALSE
        /\ skippedNodes' = nodes \ scannedNow
        /\ pendingNodes' = {}
        /\ frameScans' = [n \in ScanNodes |->
                            (IF first THEN 0 ELSE frameScans[n])
                            + (IF n \in scannedNow THEN 1 ELSE 0)]
        /\ frameFlushes' = (IF first THEN 0 ELSE frameFlushes) + 1

\* A frame starts: the callbacks requested so far are this frame's list, and
\* the first of them runs.
AnimationFrame ==
    /\ frameRun = 0 /\ rafQueue > 0
    /\ flushScan(TRUE)
    /\ frameRun' = rafQueue - 1
    /\ rafQueue' = 0
    /\ frameClean' = ~rebindSinceFrame
    /\ IF rafQueue = 1
          THEN batchesSinceFrame' = 0 /\ rebindSinceFrame' = FALSE
               /\ staleQueued' = {}
          ELSE UNCHANGED << batchesSinceFrame, rebindSinceFrame, staleQueued >>
    /\ UNCHANGED << config, activeRoot, activeObserver, feedbackTimer,
                    rootCheckTimer, docPanel, detached, liveObservers, liveTimers,
                    nextId, fullScans, feedbackScans >>
    /\ UNCHANGED notScan

\* The next callback of the running frame
FrameCallback ==
    /\ frameRun > 0
    /\ flushScan(FALSE)
    /\ frameRun' = frameRun - 1
    /\ IF frameRun = 1
          THEN batchesSinceFrame' = 0 /\ rebindSinceFrame' = FALSE
               /\ staleQueued' = {}
          ELSE UNCHANGED << batchesSinceFrame, rebindSinceFrame, staleQueued >>
    /\ UNCHANGED << config, activeRoot, activeObserver, feedbackTimer,
                    rootCheckTimer, docPanel, detached, liveObservers, liveTimers,
                    rafQueue, nextId, fullScans, frameClean, feedbackScans >>
    /\ UNCHANGED notScan

\* The host remounts the side panel, or removes / re-inserts a content node
HostRemount ==
    /\ frameRun = 0
    /\ \E p \in Roots \cup {None} : p # docPanel /\ docPanel' = p
    /\ UNCHANGED << config, activeRoot, activeObserver, feedbackTimer,
                    rootCheckTimer, pendingNodes, scheduled, detached,
                    liveObservers, liveTimers, rafQueue, frameRun, nextId,
                    frameScans, frameFlushes, batchesSinceFrame,
                    rebindSinceFrame, fullScans, frameClean, feedbackScans,
                    skippedNodes, staleQueued >>
    /\ UNCHANGED notScan

HostDetach ==
    /\ \E n \in Detachable :
          detached' = IF n \in detached THEN detached \ {n} ELSE detached \cup {n}
    /\ UNCHANGED << config, activeRoot, activeObserver, feedbackTimer,
                    rootCheckTimer, pendingNodes, scheduled, docPanel,
                    liveObservers, liveTimers, rafQueue, frameRun, nextId,
                    frameScans, frameFlushes, batchesSinceFrame,
                    rebindSinceFrame, fullScans, frameClean, feedbackScans,
                    skippedNodes, staleQueued >>
    /\ UNCHANGED notScan

\* The 2000 ms interval of a live feedback timer: scanFeedback()
FeedbackTick ==
    /\ frameRun = 0
    /\ \E t \in liveTimers :
          /\ << t.root, isConnected(t.root) >> \notin feedbackScans
          /\ feedbackScans' = feedbackScans \cup {<< t.root, isConnected(t.root) >>}
    /\ UNCHANGED << config, activeRoot, activeObserver, feedbackTimer,
                    rootCheckTimer, pendingNodes, scheduled, docPanel, detached,
                    liveObservers, liveTimers, rafQueue, frameRun, nextId,
                    frameScans, frameFlushes, batchesSinceFrame,
                    rebindSinceFrame, fullScans, frameClean, skippedNodes,
                    staleQueued >>
    /\ UNCHANGED notScan

ScanNext ==
    \/ init
    \/ RootCheckTick
    \/ ObserverCallback
    \/ AnimationFrame
    \/ FrameCallback
    \/ HostRemount
    \/ HostDetach
    \/ FeedbackTick


\* ------------------------------------------------------------------------
\* sidebar-panel/math.js: ensureKatex and renderMath
\* ------------------------------------------------------------------------
MathInit ==
    /\ katexLoaded = FALSE
    /\ katexLoading = 0
    /\ windowKatex = FALSE
    /\ loadStage = [i \in 1..MaxLoads |-> "unused"]
    /\ loadsStarted = 0
    /\ awaiting = << >>
    /\ microtasks = << >>
    /\ draining = FALSE
    /\ mathText \in [MathEls -> {[rev |-> 0, typeset |-> FALSE]}]
    /\ mathAttr = [e \in MathEls |-> FALSE]
    /\ mathSnapshot = [e \in MathEls |-> NoText]
    /\ rawText = [e \in MathEls |-> NoText]
    /\ mathAttached = [e \in MathEls |-> TRUE]
    /\ lastCall = [el |-> None, n |-> 0]
    /\ renderedText = [e \in MathEls |-> NoText]
    /\ failText = [e \in MathEls |-> NoText]

InFlight(i) == loadStage[i] \in {"style", "script", "reload"}

Settled(i) == loadStage[i] \in {"true", "false"}

\* renderMath line 405-407: the call returns before asking for the engine
skipIfMarked(el) ==
    \/ mathAttr[el]
    \/ ~MathHint(mathText[el])

skipRender(el) ==
    \/ mathAttr[el] /\ mathSnapshot[el] = mathText[el]
    \/ ~MathHint(mathText[el])

\* ensureKatex line 56: a new load is created only when none is cached
alwaysNewLoad == TRUE

needNewLoad == katexLoading = 0

\* ensureKatex line 77-80: the value of katexLoading after the await
keepFailedLoad(loaded) == katexLoading

afterAwait(loaded) == IF ~loaded THEN 0 ELSE katexLoading

\* ensureKatex line 55: a load that succeeded is not repeated
neverCached == FALSE

cachedSuccess == katexLoaded

\* ensureKatex() called for el, up to its first suspension
ensureKatex(el) ==
    IF cachedSuccess
       THEN \* returns true: the caller's await resumes in a microtask
            /\ microtasks' = Append(microtasks, [kind |-> "render", el |-> el,
                                                 load |-> 0, loaded |-> TRUE])
            /\ UNCHANGED << katexLoading, loadStage, loadsStarted, awaiting >>
       ELSE IF needNewLoad
       THEN \* the loader runs up to `await loadStyle(...)`
            /\ loadsStarted < MaxLoads
            /\ loadsStarted' = loadsStarted + 1
            /\ loadStage' = [loadStage EXCEPT ![loadsStarted + 1] = "style"]
            /\ katexLoading' = loadsStarted + 1
            /\ awaiting' = Append(awaiting, [el |-> el, load |-> loadsStarted + 1])
            /\ UNCHANGED microtasks
       ELSE IF Settled(katexLoading)
       THEN /\ microtasks' = Append(microtasks, [kind |-> "ensure", el |-> el,
                                                 load |-> katexLoading,
                                                 loaded |-> FALSE])
            /\ UNCHANGED << katexLoading, loadStage, loadsStarted, awaiting >>
       ELSE /\ awaiting' = Append(awaiting, [el |-> el, load |-> katexLoading])
            /\ UNCHANGED << katexLoading, loadStage, loadsStarted, microtasks >>

\* renderMath(el), line 400-414: from the call to the first suspension
renderMath(el) ==
    /\ lastCall' = [el |-> el, n |-> 1 - lastCall.n]
    /\ IF skipRender(el)
          THEN UNCHANGED << katexLoading, loadStage, loadsStarted,
                            awaiting, microtasks, rawText >>
          ELSE /\ Len(awaiting) + Len(microtasks) < MaxInflight
               /\ rawText' = IF rawText[el] = NoText
                                THEN [rawText EXCEPT ![el] = mathText[el]]
                                ELSE rawText
               /\ ensureKatex(el)

\* renderMath(el) called by scanClassic (a task), up to its first suspension
RenderMathCall ==
    /\ ~draining
    /\ \E el \in MathEls :
          /\ mathAttached[el]
          /\ renderMath(el)
    /\ UNCHANGED << katexLoaded, windowKatex, draining, mathText, mathAttr,
                    mathSnapshot, mathAttached, renderedText,
                    failText >>
    /\ UNCHANGED notMath

WaitersOf(seq, i) == SelectSeq(seq, LAMBDA w : w.load = i)

\* The loader's promise settles: its waiters become ready in arrival order
settle(i, result) ==
    /\ loadStage' = [loadStage EXCEPT ![i] = IF result THEN "true" ELSE "false"]
    /\ microtasks' = microtasks \o
          [k \in 1..Len(WaitersOf(awaiting, i)) |->
              [kind |-> "ensure", el |-> WaitersOf(awaiting, i)[k].el,
               load |-> i, loaded |-> result]]
    /\ awaiting' = SelectSeq(awaiting, LAMBDA w : w.load # i)
    /\ draining' = (WaitersOf(awaiting, i) # << >>)

\* A network event of the loader (ensureKatex line 58-72) and the loader's
\* continuation up to its next await or its return.
LoadStyleDone ==
    /\ microtasks = << >>
    /\ \E i \in 1..MaxLoads :
          /\ loadStage[i] = "style"
          /\ \E ok \in BOOLEAN :
                IF ok THEN /\ loadStage' = [loadStage EXCEPT ![i] = "script"]
                           /\ UNCHANGED << microtasks, awaiting, draining >>
                      ELSE settle(i, FALSE)
    /\ UNCHANGED << katexLoaded, katexLoading, windowKatex, loadsStarted, mathText,
                    mathAttr, mathSnapshot, rawText, mathAttached, lastCall, renderedText,
                    failText >>
    /\ UNCHANGED notMath

LoadScriptDone ==
    /\ microtasks = << >>
    /\ \E i \in 1..MaxLoads :
          /\ loadStage[i] \in {"script", "reload"}
          /\ \E ok \in BOOLEAN, defines \in BOOLEAN :
                IF ~ok
                   THEN /\ settle(i, FALSE)
                        /\ UNCHANGED << windowKatex, katexLoaded >>
                   ELSE /\ windowKatex' = (windowKatex \/ defines)
                        /\ IF windowKatex'
                              THEN /\ settle(i, TRUE)
                                   /\ katexLoaded' = TRUE
                              ELSE IF loadStage[i] = "script"
                              THEN /\ loadStage' = [loadStage EXCEPT ![i] = "reload"]
                                   /\ UNCHANGED << microtasks, awaiting, draining,
                                                   katexLoaded >>
                              ELSE /\ settle(i, FALSE)
                                   /\ UNCHANGED katexLoaded
    /\ UNCHANGED << katexLoading, loadsStarted, mathText, mathAttr, mathSnapshot,
                    rawText, mathAttached, lastCall, renderedText,
                    failText >>
    /\ UNCHANGED notMath

\* ensureKatex resumes after `await katexLoading` (line 76-81) and hands its
\* result to the renderMath that awaits it
EnsureKatexResume ==
    /\ microtasks # << >>
    /\ Head(microtasks).kind = "ensure"
    /\ LET m == Head(microtasks)
           loaded == loadStage[m.load] = "true"
       IN  /\ katexLoading' = afterAwait(loaded)
           /\ microtasks' = Append(Tail(microtasks),
                                   [kind |-> "render", el |-> m.el,
                                    load |-> m.load, loaded |-> loaded])
    /\ draining' = TRUE
    /\ UNCHANGED << katexLoaded, windowKatex, loadStage, loadsStarted, awaiting,
                    mathText, mathAttr, mathSnapshot, rawText, mathAttached,
                    lastCall, renderedText,
                    failText >>
    /\ UNCHANGED notMath

\* renderMath line 423-427: the mark of the element after the pass threw
throwKeepsMark(el) == mathAttr

afterThrow(el) == [mathAttr EXCEPT ![el] = FALSE]

\* renderMath resumes after `await ensureKatex()` (line 415-427)
renderMathResumes ==
    /\ microtasks # << >>
    /\ Head(microtasks).kind = "render"
    /\ LET m == Head(microtasks)
           el == m.el
       IN  IF ~m.loaded \/ ~windowKatex
              THEN /\ failText' = [failText EXCEPT ![el] = mathText[el]]
                   /\ UNCHANGED << mathText, mathAttr, mathSnapshot, renderedText >>
              ELSE \E throws \in BOOLEAN :
                      IF ~throws
                         THEN /\ mathText' = [mathText EXCEPT ![el] = Typeset(@)]
                              /\ mathAttr' = [mathAttr EXCEPT ![el] = TRUE]
                              /\ mathSnapshot' = [mathSnapshot EXCEPT
                                                     ![el] = mathText'[el]]
                              /\ renderedText' = [renderedText EXCEPT
                                                     ![el] = Typeset(mathText[el])]
                              /\ failText' = [failText EXCEPT ![el] = NoText]
                         ELSE /\ mathAttr' = afterThrow(el)
                              /\ failText' = [failText EXCEPT ![el] = mathText[el]]
                              /\ UNCHANGED << mathText, mathSnapshot,
                                              renderedText >>
    /\ microtasks' = Tail(microtasks)
    /\ draining' = (microtasks' # << >>)
    /\ UNCHANGED << katexLoaded, katexLoading, windowKatex, loadStage,
                    loadsStarted, awaiting, rawText, mathAttached, lastCall >>

RenderMathResume ==
    /\ renderMathResumes
    /\ UNCHANGED notMath

\* The host streams a further revision of the content into the element
MathHostUpdate ==
    /\ microtasks = << >>
    /\ \E el \in MathEls :
          /\ mathAttached[el]
          /\ mathText[el].rev < MaxRev
          /\ mathText' = [mathText EXCEPT
                             ![el] = [rev |-> @.rev + 1, typeset |-> FALSE]]
    /\ UNCHANGED << katexLoaded, katexLoading, windowKatex, loadStage,
                    loadsStarted, awaiting, microtasks, draining, mathAttr,
                    mathSnapshot, rawText, mathAttached, lastCall, renderedText,
                    failText >>
    /\ UNCHANGED notMath

\* The host removes the element from the document
MathHostDetach ==
    /\ microtasks = << >>
    /\ \E el \in MathEls :
          /\ mathAttached[el]
          /\ mathAttached' = [mathAttached EXCEPT ![el] = FALSE]
    /\ UNCHANGED << katexLoaded, katexLoading, windowKatex, loadStage,
                    loadsStarted, awaiting, microtasks, draining, mathText,
                    mathAttr, mathSnapshot, rawText, lastCall, renderedText,
                    failText >>
    /\ UNCHANGED notMath

MathNext ==
    \/ RenderMathCall
    \/ LoadStyleDone
    \/ LoadScriptDone
    \/ EnsureKatexResume
    \/ RenderMathResume
    \/ MathHostUpdate
    \/ MathHostDetach

\* ------------------------------------------------------------------------
\* mermaid.js: ensureMermaid and renderMermaid
\* ------------------------------------------------------------------------
MermaidInit ==
    /\ mermaidReady = FALSE
    /\ mermaidReadyPromise = "null"
    /\ mermaidIdCounter = 0
    /\ windowMermaid \in BOOLEAN
    /\ dLoad = "none"
    /\ dLoads = 0
    /\ dSource \in [DiagEls -> {"A"}]
    /\ dSourceProp = [e \in DiagEls |-> ""]
    /\ dAttr = [e \in DiagEls |-> FALSE]
    /\ dErrorProp = [e \in DiagEls |-> ""]
    /\ dRendering = [e \in DiagEls |-> FALSE]
    /\ dHidden = [e \in DiagEls |-> FALSE]
    /\ dContainer = [e \in DiagEls |-> NoContainer]
    /\ dAttached = [e \in DiagEls |-> TRUE]
    /\ dInflight = << >>
    /\ dAttempts = 0
    /\ dLastCall = [el |-> None, n |-> 0, busy |-> FALSE]
    /\ dLastEnd = [el |-> None, n |-> 0, how |-> "none", source |-> ""]
    /\ dLastFail = [e \in DiagEls |-> ""]

\* the same with d1 the only diagram node in the document
MermaidInitOne ==
    /\ mermaidReady = FALSE
    /\ mermaidReadyPromise = "null"
    /\ mermaidIdCounter = 0
    /\ windowMermaid \in BOOLEAN
    /\ dLoad = "none"
    /\ dLoads = 0
    /\ dSource \in [DiagEls -> {"A"}]
    /\ dSourceProp = [e \in DiagEls |-> ""]
    /\ dAttr = [e \in DiagEls |-> FALSE]
    /\ dErrorProp = [e \in DiagEls |-> ""]
    /\ dRendering = [e \in DiagEls |-> FALSE]
    /\ dHidden = [e \in DiagEls |-> FALSE]
    /\ dContainer = [e \in DiagEls |-> NoContainer]
    /\ dAttached = [e \in DiagEls |-> e = "d1"]
    /\ dInflight = << >>
    /\ dAttempts = 0
    /\ dLastCall = [el |-> None, n |-> 0, busy |-> FALSE]
    /\ dLastEnd = [el |-> None, n |-> 0, how |-> "none", source |-> ""]
    /\ dLastFail = [e \in DiagEls |-> ""]

\* ensureMermaid(): the promise it returns, created on the first call only.
\* The async body runs up to `await loadScript(MERMAID_URL)`.
ensureMermaid ==
    IF mermaidReadyPromise # "null"
       THEN UNCHANGED << mermaidReadyPromise, mermaidReady, dLoad, dLoads >>
       ELSE IF windowMermaid /\ mermaidReady
       THEN /\ mermaidReadyPromise' = "settled"
            /\ UNCHANGED << mermaidReady, dLoad, dLoads >>
       ELSE IF windowMermaid
       THEN /\ mermaidReadyPromise' = "settled"
            /\ mermaidReady' = TRUE
            /\ UNCHANGED << dLoad, dLoads >>
       ELSE /\ mermaidReadyPromise' = "pending"
            /\ dLoad' = "pending"
            /\ dLoads' = dLoads + 1
            /\ UNCHANGED mermaidReady

\* renderMermaid line 168-175: the call returns without an attempt
guardWithoutRenderingFlag(el, source) ==
    LET contentChanged == dSourceProp[el] # "" /\ dSourceProp[el] # source
    IN  \/ dAttr[el] /\ ~contentChanged
        \/ ~dAttr[el] /\ ~contentChanged /\ dErrorProp[el] = source

guardIgnoresRendered(el, source) ==
    LET contentChanged == dSourceProp[el] # "" /\ dSourceProp[el] # source
    IN  \/ ~dAttr[el] /\ ~contentChanged /\ dErrorProp[el] = source
        \/ dRendering[el]

renderGuard(el, source) ==
    LET contentChanged == dSourceProp[el] # "" /\ dSourceProp[el] # source
    IN  \/ dAttr[el] /\ ~contentChanged
        \/ ~dAttr[el] /\ ~contentChanged /\ dErrorProp[el] = source
        \/ dRendering[el]

\* renderMermaid(el), line 159-183: from the call to `await ensureMermaid()`
renderMermaid(el) ==
    LET source == dSource[el]
    IN  /\ dLastCall' = [el |-> el, n |-> 1 - dLastCall.n,
                         busy |-> \E k \in 1..Len(dInflight) :
                                     dInflight[k].el = el]
        /\ IF source = "" \/ renderGuard(el, source)
              THEN UNCHANGED << mermaidReadyPromise, mermaidReady, dLoad,
                                dLoads, dSourceProp, dRendering, dInflight,
                                dAttempts, dLastFail >>
              ELSE /\ Len(dInflight) < MaxDiagInflight
                   /\ dSourceProp' = [dSourceProp EXCEPT ![el] = source]
                   /\ dRendering' = [dRendering EXCEPT ![el] = TRUE]
                   /\ dInflight' = Append(dInflight,
                         [el |-> el, source |-> source, stage |-> "ensure"])
                   /\ dAttempts' = IF dAttempts < MaxAttempts
                                      THEN dAttempts + 1 ELSE dAttempts
                   /\ dLastFail' = [dLastFail EXCEPT ![el] = ""]
                   /\ ensureMermaid

\* renderMermaid(el) called by scanMermaid (a task), up to `await ensureMermaid()`
RenderMermaidCall ==
    /\ \E el \in DiagEls :
          /\ dAttached[el]
          /\ dSource[el] = "" \/ renderGuard(el, dSource[el])
                \/ dAttempts < MaxAttempts
          /\ renderMermaid(el)
    /\ UNCHANGED << mermaidIdCounter, windowMermaid, dSource, dAttr, dErrorProp,
                    dHidden, dContainer, dAttached, dLastEnd >>
    /\ UNCHANGED notMermaid

\* loadScript(MERMAID_URL) settles and ensureMermaid's body runs to its end
MermaidLoadDone ==
    /\ dLoad = "pending"
    /\ \E ok \in BOOLEAN, defines \in BOOLEAN :
          IF ok
             THEN /\ windowMermaid' = defines
                  /\ mermaidReady' = (mermaidReady \/ defines)
                  /\ dLoad' = IF defines THEN "ok" ELSE "failed"
             ELSE /\ mermaidReady' = FALSE
                  /\ dLoad' = "failed"
                  /\ UNCHANGED windowMermaid
    /\ mermaidReadyPromise' = "settled"
    /\ UNCHANGED << mermaidIdCounter, dLoads, dSource, dSourceProp, dAttr,
                    dErrorProp, dRendering, dHidden, dContainer, dAttached,
                    dInflight, dAttempts, dLastCall, dLastEnd, dLastFail >>
    /\ UNCHANGED notMermaid

RemoveAt(seq, k) == [j \in 1..(Len(seq) - 1) |-> IF j < k THEN seq[j] ELSE seq[j + 1]]

\* the container the catch block leaves behind (line 248-252)
catchKeepsContainer(c) == c

catchContainer(c) ==
    IF c.exists THEN [c EXCEPT !.content = "", !.hidden = TRUE] ELSE c

\* the error source the catch block records (line 245)
catchRecordsNothing(el, source) == dErrorProp[el]

catchErrorSource(el, source) == source

\* renderMermaid line 253-258: the rendering flag after the finally block
flagLeftSet(el) == dRendering

clearedInFinally(el) == [dRendering EXCEPT ![el] = FALSE]

\* renderMermaid line 243-258: catch, then finally
catchAndFinally(k, how) ==
    LET r == dInflight[k]
        el == r.el
    IN  /\ dErrorProp' = [dErrorProp EXCEPT ![el] = catchErrorSource(el, r.source)]
        /\ dAttr' = [dAttr EXCEPT ![el] = FALSE]
        /\ dHidden' = [dHidden EXCEPT ![el] = FALSE]
        /\ dContainer' = [dContainer EXCEPT ![el] = catchContainer(@)]
        /\ dRendering' = clearedInFinally(el)
        /\ dInflight' = RemoveAt(dInflight, k)
        /\ dLastEnd' = [el |-> el, n |-> 1 - dLastEnd.n, how |-> how,
                        source |-> r.source]
        /\ dLastFail' = [dLastFail EXCEPT ![el] = r.source]

\* renderMermaid resumes after `await ensureMermaid()` (line 184-191)
MermaidResumeAfterEnsure ==
    /\ mermaidReadyPromise = "settled"
    /\ \E k \in 1..Len(dInflight) :
          /\ dInflight[k].stage = "ensure"
          /\ IF ~mermaidReady \/ ~windowMermaid
                THEN \* engine not ready: return, through finally
                     /\ dRendering' = clearedInFinally(dInflight[k].el)
                     /\ dInflight' = RemoveAt(dInflight, k)
                     /\ dLastEnd' = [el |-> dInflight[k].el, n |-> 1 - dLastEnd.n,
                                     how |-> "notready",
                                     source |-> dInflight[k].source]
                ELSE /\ dInflight' = [dInflight EXCEPT ![k].stage = "parse"]
                     /\ UNCHANGED << dRendering, dLastEnd >>
    /\ UNCHANGED << mermaidReady, mermaidReadyPromise, mermaidIdCounter,
                    windowMermaid, dLoad, dLoads, dSource, dSourceProp, dAttr,
                    dErrorProp, dHidden, dContainer, dAttached, dAttempts,
                    dLastCall, dLastFail >>
    /\ UNCHANGED notMermaid

\* mermaid.parse(source) settles (line 190-206)
mermaidParseSettles ==
    /\ \E k \in 1..Len(dInflight), ok \in BOOLEAN :
          /\ dInflight[k].stage = "parse"
          /\ IF ok
                THEN /\ mermaidIdCounter' = mermaidIdCounter + 1
                     /\ dContainer' = [dContainer EXCEPT ![dInflight[k].el] =
                           IF @.exists THEN @
                           ELSE [exists |-> TRUE, content |-> "",
                                 hidden |-> FALSE, source |-> ""]]
                     /\ dInflight' = [dInflight EXCEPT ![k].stage = "render"]
                     /\ UNCHANGED << dErrorProp, dAttr, dHidden, dRendering,
                                     dLastEnd, dLastFail >>
                ELSE /\ catchAndFinally(k, "parse")
                     /\ UNCHANGED mermaidIdCounter
    /\ UNCHANGED << mermaidReady, mermaidReadyPromise, windowMermaid, dLoad,
                    dLoads, dSource, dSourceProp, dAttached, dAttempts,
                    dLastCall >>

MermaidParseDone ==
    /\ mermaidParseSettles
    /\ UNCHANGED notMermaid

\* mermaid.render(renderId, source, container) settles (line 204-258)
mermaidRenderSettles ==
    /\ \E k \in 1..Len(dInflight), result \in {"svg", "throws", "badsvg"} :
          LET r == dInflight[k]
              el == r.el
          IN  /\ r.stage = "render"
              /\ CASE result = "svg" ->
                        /\ dContainer' = [dContainer EXCEPT ![el] =
                              [exists |-> TRUE, content |-> r.source,
                               hidden |-> FALSE, source |-> r.source]]
                        /\ dHidden' = [dHidden EXCEPT ![el] = TRUE]
                        /\ dAttr' = [dAttr EXCEPT ![el] = TRUE]
                        /\ dErrorProp' = [dErrorProp EXCEPT ![el] = ""]
                        /\ dRendering' = clearedInFinally(el)
                        /\ dInflight' = RemoveAt(dInflight, k)
                        /\ dLastEnd' = [el |-> el, n |-> 1 - dLastEnd.n,
                                        how |-> "rendered", source |-> r.source]
                        /\ UNCHANGED dLastFail
                   [] result = "throws" -> catchAndFinally(k, "render")
                   [] OTHER -> catchAndFinally(k, "badsvg")
    /\ UNCHANGED << mermaidReady, mermaidReadyPromise, mermaidIdCounter,
                    windowMermaid, dLoad, dLoads, dSource, dSourceProp,
                    dAttached, dAttempts, dLastCall >>

MermaidRenderDone ==
    /\ mermaidRenderSettles
    /\ UNCHANGED notMermaid

\* The host rewrites the code block's text
MermaidHostUpdate ==
    /\ \E el \in DiagEls, src \in Sources :
          /\ dAttached[el]
          /\ src # dSource[el]
          /\ dSource' = [dSource EXCEPT ![el] = src]
    /\ UNCHANGED << mermaidReady, mermaidReadyPromise, mermaidIdCounter,
                    windowMermaid, dLoad, dLoads, dSourceProp, dAttr, dErrorProp,
                    dRendering, dHidden, dContainer, dAttached, dInflight,
                    dAttempts, dLastCall, dLastEnd, dLastFail >>
    /\ UNCHANGED notMermaid

\* The host removes the node from the document
MermaidHostDetach ==
    /\ \E el \in DiagDetachable :
          /\ dAttached[el]
          /\ dAttached' = [dAttached EXCEPT ![el] = FALSE]
    /\ UNCHANGED << mermaidReady, mermaidReadyPromise, mermaidIdCounter,
                    windowMermaid, dLoad, dLoads, dSource, dSourceProp, dAttr,
                    dErrorProp, dRendering, dHidden, dContainer, dInflight,
                    dAttempts, dLastCall, dLastEnd, dLastFail >>
    /\ UNCHANGED notMermaid

MermaidNext ==
    \/ RenderMermaidCall
    \/ MermaidLoadDone
    \/ MermaidResumeAfterEnsure
    \/ MermaidParseDone
    \/ MermaidRenderDone
    \/ MermaidHostUpdate
    \/ MermaidHostDetach

\* ------------------------------------------------------------------------
\* Specifications
\* ------------------------------------------------------------------------
\* ------------------------------------------------------------------------
\* sidebar-panel/math.js: isEscaped, findNextDelimiter, findEndDelimiter,
\* splitWithDelimiters.  Indices are the source's (0-based).
\* ------------------------------------------------------------------------
\* text[i]; "" stands for undefined
CharAt(text, i) == IF i >= 0 /\ i < Len(text) THEN text[i + 1] ELSE ""

\* text.slice(a, b)
slice(text, a, b) == SubSeq(text, a + 1, b)

\* /\s/.test(c) for a defined c
IsSpace(c) == c = " "

StartsAt(text, pat, i) ==
    /\ i >= 0 /\ i + Len(pat) <= Len(text)
    /\ \A k \in 1..Len(pat) : text[i + k] = pat[k]

\* text.indexOf(pat, from)
indexOf(text, pat, from) ==
    LET hits == {i \in from..(Len(text) - Len(pat)) : StartsAt(text, pat, i)}
    IN  IF hits = {} THEN -1 ELSE CHOOSE i \in hits : \A j \in hits : i <= j

RECURSIVE slashCount(_, _)
slashCount(text, index) ==
    IF index - 1 >= 0 /\ CharAt(text, index - 1) = "\\"
       THEN 1 + slashCount(text, index - 1) ELSE 0

isEscaped(text, index) == slashCount(text, index) % 2 = 1

\* findNextDelimiter line 105: the delimiter found at idx replaces match
lastOccurrenceWins(idx, k, match) == TRUE

better(idx, k, match) ==
    \/ match = NoMatch
    \/ idx < match.index
    \/ /\ idx = match.index
       /\ Len(DELIMITERS[k].left) > Len(DELIMITERS[match.k].left)

\* findNextDelimiter line 95-108: one turn of the loop over DELIMITERS
nextMatch(text, startIndex, k, match) ==
    LET left == DELIMITERS[k].left
        idx == indexOf(text, left, startIndex)
        nextChar == CharAt(text, idx + 1)
    IN  IF idx = -1 THEN match
        ELSE IF left = << "$" >> /\ isEscaped(text, idx) THEN match
        ELSE IF left = << "$" >> /\ nextChar # "" /\ IsSpace(nextChar) THEN match
        ELSE IF better(idx, k, match) THEN [index |-> idx, k |-> k]
        ELSE match

RECURSIVE findNextLoop(_, _, _, _)
findNextLoop(text, startIndex, k, match) ==
    IF k > Len(DELIMITERS) THEN match
    ELSE findNextLoop(text, startIndex, k + 1, nextMatch(text, startIndex, k, match))

findNextDelimiter(text, startIndex) == findNextLoop(text, startIndex, 1, NoMatch)

\* findEndDelimiter line 117-127: a `$` closer at idx is passed over
noCloserGuard(text, idx) == FALSE

dollarCloserRejected(text, idx) ==
    LET prevChar == CharAt(text, idx - 1)
        nextChar == CharAt(text, idx + 1)
    IN  \/ prevChar # "" /\ IsSpace(prevChar)
        \/ nextChar = "$"

\* findEndDelimiter(text, startIndex, delimiter), right = delimiter.right
RECURSIVE findEndLoop(_, _, _)
findEndLoop(text, idx, right) ==
    IF idx = -1 THEN -1
    ELSE IF ~isEscaped(text, idx)
              /\ ~(right = << "$" >> /\ dollarCloserRejected(text, idx))
         THEN idx
    ELSE findEndLoop(text, indexOf(text, right, idx + Len(right)), right)

findEndDelimiter(text, startIndex, right) ==
    findEndLoop(text, indexOf(text, right, startIndex), right)

TextToken(data) ==
    [type |-> "text", data |-> data, display |-> FALSE,
     left |-> << >>, right |-> << >>]

MathToken(data, d) ==
    [type |-> "math", data |-> data, display |-> d.display,
     left |-> d.left, right |-> d.right]

\* splitWithDelimiters line 147-149: the plain text in front of an opener
textBeforeAlways(text, pos, index) == << TextToken(slice(text, pos, index)) >>

textBefore(text, pos, index) ==
    IF index > pos THEN << TextToken(slice(text, pos, index)) >> ELSE << >>

\* splitWithDelimiters line 153-155: the token for an opener with no closer
restAfterOpener(text, index, start) == TextToken(slice(text, start, Len(text)))

unclosedRest(text, index, start) == TextToken(slice(text, index, Len(text)))

\* splitWithDelimiters line 140-168: the while loop from pos on
RECURSIVE splitLoop(_, _, _)
splitLoop(text, pos, toks) ==
    IF ~(pos < Len(text)) THEN toks
    ELSE LET fnd == findNextDelimiter(text, pos)
         IN  IF fnd = NoMatch
                THEN Append(toks, TextToken(slice(text, pos, Len(text))))
                ELSE LET d == DELIMITERS[fnd.k]
                         start == fnd.index + Len(d.left)
                         end == findEndDelimiter(text, start, d.right)
                         front == toks \o textBefore(text, pos, fnd.index)
                     IN  IF end = -1
                            THEN Append(front, unclosedRest(text, fnd.index, start))
                            ELSE splitLoop(text, end + Len(d.right),
                                           Append(front,
                                                  MathToken(slice(text, start, end), d)))

splitWithDelimiters(text) == splitLoop(text, 0, << >>)

\* The scan is handed a text run; splitWithDelimiters or findNextDelimiter
\* is called on it.
SplitInit ==
    /\ runText \in Texts
    /\ tokens = << >>
    /\ found = [start |-> -1, match |-> NoMatch]
    /\ splitPc = "text"

SplitCall ==
    /\ splitPc = "text"
    /\ tokens' = splitWithDelimiters(runText)
    /\ splitPc' = "split"
    /\ UNCHANGED << runText, found >>
    /\ UNCHANGED notSplit

FindCall ==
    /\ splitPc = "text"
    /\ \E startIndex \in 0..Len(runText) :
          found' = [start |-> startIndex,
                    match |-> findNextDelimiter(runText, startIndex)]
    /\ splitPc' = "find"
    /\ UNCHANGED << runText, tokens >>
    /\ UNCHANGED notSplit

SplitNext ==
    \/ SplitCall
    \/ FindCall

SplitIdle ==
    /\ runText = << >>
    /\ tokens = << >>
    /\ found = [start |-> -1, match |-> NoMatch]
    /\ splitPc = "text"

\* ------------------------------------------------------------------------
\* sidebar-panel/math.js: restoreUnderscoreInDollarMath
\* ------------------------------------------------------------------------
RECURSIVE Concat(_)
Concat(strs) == IF strs = << >> THEN << >> ELSE Head(strs) \o Concat(Tail(strs))

\* node.textContent
textContent(n) ==
    IF n.kind \in {"em", "strong"}
       THEN Concat([k \in 1..Len(n.kids) |-> n.kids[k].text])
       ELSE n.text

DOLLARS == << << "$", "$" >>, << "$" >> >>

\* findNextDollarDelimiter line 210-223: one turn of the loop
dollarMatch(text, startIndex, k, match) ==
    LET delimiter == DOLLARS[k]
        idx == indexOf(text, delimiter, startIndex)
        nextChar == CharAt(text, idx + 1)
    IN  IF idx = -1 THEN match
        ELSE IF isEscaped(text, idx) THEN match
        ELSE IF delimiter = << "$" >> /\ nextChar # "" /\ IsSpace(nextChar) THEN match
        ELSE IF \/ match = NoMatch
                \/ idx < match.index
                \/ idx = match.index /\ Len(delimiter) > Len(DOLLARS[match.k])
             THEN [index |-> idx, k |-> k]
        ELSE match

findNextDollarDelimiter(text, startIndex) ==
    dollarMatch(text, startIndex, 2, dollarMatch(text, startIndex, 1, NoMatch))

\* collectDollarMathRanges(text), the loop from pos on
RECURSIVE collectLoop(_, _, _)
collectLoop(text, pos, ranges) ==
    IF ~(pos < Len(text)) THEN ranges
    ELSE LET fnd == findNextDollarDelimiter(text, pos)
         IN  IF fnd = NoMatch THEN ranges
             ELSE LET delimiter == DOLLARS[fnd.k]
                      start == fnd.index + Len(delimiter)
                      end == findEndDelimiter(text, start, delimiter)
                  IN  IF end = -1
                         THEN collectLoop(text, fnd.index + Len(delimiter), ranges)
                         ELSE collectLoop(text, end + Len(delimiter),
                                          ranges \cup {[start |-> start, end |-> end]})

collectDollarMathRanges(text) == collectLoop(text, 0, {})

\* restoreUnderscoreInDollarMath line 296-340: what a child adds to the
\* running segment: "text", "format", or "flush" (the segment ends)
UnitType(child) ==
    CASE child.kind = "text" -> IF child.text = << >> THEN "flush" ELSE "text"
      [] child.kind \in {"em", "strong"} ->
            IF textContent(child) = << >> THEN "flush" ELSE "format"
      [] OTHER -> "flush"   \* code and math containers: shouldSkipElementNode

marker(child) == IF child.kind = "strong" THEN << "_", "_" >> ELSE << "_" >>

\* The segment child i lies in: the longest run of units around it
SegFirst(ns, i) ==
    CHOOSE a \in 1..i :
        /\ \A j \in a..i : UnitType(ns[j]) # "flush"
        /\ a = 1 \/ UnitType(ns[a - 1]) = "flush"

SegLast(ns, i) ==
    CHOOSE b \in i..Len(ns) :
        /\ \A j \in i..b : UnitType(ns[j]) # "flush"
        /\ b = Len(ns) \/ UnitType(ns[b + 1]) = "flush"

\* flushSegment line 285-291: the unit lies inside one range of the merged text
rangeHolds(unitStart, unitEnd, range) ==
    unitStart >= range.start /\ unitEnd <= range.end

inDollarMath(ns, i) ==
    /\ UnitType(ns[i]) = "format"
    /\ LET a == SegFirst(ns, i)
           b == SegLast(ns, i)
           mergedText == Concat([j \in 1..(b - a + 1) |-> textContent(ns[a + j - 1])])
           unitStart == Len(Concat([j \in 1..(i - a) |-> textContent(ns[a + j - 1])]))
           unitEnd == unitStart + Len(textContent(ns[i]))
       IN  \E range \in collectDollarMathRanges(mergedText) :
              rangeHolds(unitStart, unitEnd, range)

\* flushSegment line 289: the text that replaces a format node
leadingMarkerOnly(child) == marker(child) \o textContent(child)

markedText(child) == marker(child) \o textContent(child) \o marker(child)

\* el.normalize(): empty text nodes go, adjacent text nodes become one
RECURSIVE mergeTexts(_)
mergeTexts(ns) ==
    IF ns = << >> THEN << >>
    ELSE IF Head(ns).kind = "text" /\ Head(ns).text = << >> THEN mergeTexts(Tail(ns))
    ELSE IF Len(ns) >= 2 /\ Head(ns).kind = "text" /\ ns[2].kind = "text"
         THEN mergeTexts(<< TextNode(Head(ns).text \o ns[2].text) >> \o Tail(Tail(ns)))
    ELSE << Head(ns) >> \o mergeTexts(Tail(ns))

normalize(ns) ==
    mergeTexts([i \in 1..Len(ns) |->
                   IF ns[i].kind \in {"em", "strong"}
                      THEN [ns[i] EXCEPT !.kids = mergeTexts(@)]
                      ELSE ns[i]])

\* restoreUnderscoreInDollarMath(el) on el.childNodes
restoreUnderscoreInDollarMath(ns) ==
    LET restored == \E i \in 1..Len(ns) : inDollarMath(ns, i)
        replaced == [i \in 1..Len(ns) |->
                        IF inDollarMath(ns, i)
                           THEN TextNode(markedText(ns[i])) ELSE ns[i]]
    IN  IF restored THEN normalize(replaced) ELSE ns

\* ------------------------------------------------------------------------
\* sidebar-panel/math.js: renderMathIntoElement and the pass of renderMath
\* ------------------------------------------------------------------------
\* MATH_HINT_RE.test(text), for texts without \begin{ and line breaks
MATH_HINT_RE(text) ==
    \E i \in 0..(Len(text) - 1) :
       \/ StartsAt(text, << "$", "$" >>, i)
       \/ StartsAt(text, << "\\", "(" >>, i)
       \/ StartsAt(text, << "\\", "[" >>, i)
       \/ /\ CharAt(text, i) = "$"
          /\ ~IsSpace(CharAt(text, i + 1))
          /\ \E j \in (i + 2)..(Len(text) - 1) :
                /\ CharAt(text, j) = "$"
                /\ \A m \in (i + 1)..(j - 1) : CharAt(text, m) # "$"

\* renderMathIntoElement line 380-383: the text of a container whose
\* engine call failed
fallbackEmpty(token) == << >>

fallbackText(token) == token.left \o token.data \o token.right

\* renderMathIntoElement line 367-386: the node made for one token
TokenNodes(token, engineOk) ==
    IF token.type = "text"
       THEN IF token.data # << >> THEN << TextNode(token.data) >> ELSE << >>
       ELSE IF engineOk
       THEN << Node("wrapper", EngineText, << >>, token, "engine") >>
       ELSE << Node("wrapper", fallbackText(token), << >>, token, "fallback") >>

\* renderMathIntoElement line 356-364: the text nodes the pass replaces
Replaced(n) ==
    /\ n.kind = "text"
    /\ n.text # << >> /\ MATH_HINT_RE(n.text)
    /\ LET toks == splitWithDelimiters(n.text)
       IN  ~(Len(toks) = 1 /\ toks[1].type = "text")

\* textNode.replaceWith(fragment), for each text node among ns
replaceTexts(ns, engineOk) ==
    Concat([i \in 1..Len(ns) |->
               IF Replaced(ns[i])
                  THEN LET toks == splitWithDelimiters(ns[i].text)
                       IN  Concat([k \in 1..Len(toks) |-> TokenNodes(toks[k], engineOk)])
                  ELSE << ns[i] >>])

\* renderMathIntoElement line 352-389: the walker reaches the text nodes of
\* el and of its em / strong children, not those inside code and math
\* containers
walkTextNodes(rs, engineOk) ==
    replaceTexts([i \in 1..Len(rs) |->
                     IF rs[i].kind \in {"em", "strong"}
                        THEN [rs[i] EXCEPT !.kids = replaceTexts(@, engineOk)]
                        ELSE rs[i]],
                 engineOk)

\* renderMathIntoElement(el): the restoration, then the walk over its result
renderMathIntoElement(ns, engineOk) ==
    CHOOSE after \in {walkTextNodes(rs, engineOk) :
                         rs \in {restoreUnderscoreInDollarMath(ns)}} : TRUE

\* el.textContent
ElText(ns) == Concat([i \in 1..Len(ns) |-> textContent(ns[i])])

\* All nodes of el: its children and the nodes inside em / strong children
AllNodes(ns) ==
    {ns[i] : i \in 1..Len(ns)}
       \cup UNION {{ns[i].kids[k] : k \in 1..Len(ns[i].kids)} : i \in 1..Len(ns)}

Contains(text, part) == \E i \in 0..Len(text) : StartsAt(text, part, i)

\* Fallback texts of containers inside the em / strong nodes that the
\* restoration turns into text
RestoredFallbacks(ns) ==
    {w.text : w \in UNION {{ns[i].kids[k] : k \in 1..Len(ns[i].kids)} :
                              i \in {j \in 1..Len(ns) : inDollarMath(ns, j)}}}
       \cap {w.text : w \in {x \in AllNodes(ns) : x.kind = "wrapper"
                                                    /\ x.out = "fallback"}}

PassInit ==
    /\ kids = << >>
    /\ appended = 0
    /\ hostKids = << >>
    /\ passes = 0
    /\ passMark = [attr |-> FALSE, snapshot |-> << >>]
    /\ rescanned = FALSE

\* renderMath(el) with the engine loaded: line 402-407, then the pass of
\* line 417-422.  The engine call of each token succeeds, throws, or
\* katex.render is missing.
MathPass ==
    /\ passes < MaxPasses
    /\ ~(passMark.attr /\ passMark.snapshot = ElText(kids))
    /\ MATH_HINT_RE(ElText(kids))
    /\ \E engine \in {"ok", "throws", "missing"} :
          \E after \in {renderMathIntoElement(kids, engine = "ok")} :
              /\ kids' = after
              /\ passMark' = [attr |-> TRUE, snapshot |-> ElText(after)]
              /\ rescanned' =
                    (rescanned \/
                       \E f \in RestoredFallbacks(kids) :
                          \E w \in AllNodes(after) \ AllNodes(kids) :
                             w.kind = "wrapper" /\ Contains(w.token.data, f))
    /\ hostKids' = kids
    /\ passes' = passes + 1
    /\ UNCHANGED appended
    /\ UNCHANGED notPass

\* The host streams one more node into the element
HostAppend ==
    /\ appended < MaxKids
    /\ \E n \in HostNodes : kids' = Append(kids, n)
    /\ appended' = appended + 1
    /\ UNCHANGED << hostKids, passes, passMark, rescanned >>
    /\ UNCHANGED notPass

PassNext ==
    \/ MathPass
    \/ HostAppend

\* ------------------------------------------------------------------------
\* cascade-panel/extract.js: the tree and the DOM queries the serializer makes
\* ------------------------------------------------------------------------
\* Text is a sequence of atoms: "\n", " ", or a run without white space.
\* A node is an element (tag, class names, aria-label, display attribute, href,
\* the diagram source kept on it, child nodes) or a text node.
DomNode(type, tag, cls, aria, display, href, src, text, kidNodes) ==
    [type |-> type, tag |-> tag, cls |-> cls, aria |-> aria, display |-> display,
     href |-> href, src |-> src, text |-> text, kids |-> kidNodes]

T(atoms) == DomNode("text", "", {}, "", "", "", << >>, atoms, << >>)

E(tag, cls, kidNodes) == DomNode("el", tag, cls, "", "", "", << >>, << >>, kidNodes)

IsEl(n) == n.type = "el"

\* getClassString(el).includes(word), for the words the serializer looks for
ClassIncludes(n, word) ==
    \E c \in n.cls :
       \/ c = word
       \/ word = "katex" /\ c \in {"katex-display", "katex-html", "katex-mathml"}
       \/ word = "inline" /\ c = "inline-block"
       \/ word = "language-" /\ c \in {"language-js", "language-py", "language-c"}

\* classString.match(/language-(\w+)/): the first language id in the string
LangOf(n) ==
    IF "language-js" \in n.cls THEN "js"
    ELSE IF "language-py" \in n.cls THEN "py"
    ELSE IF "language-c" \in n.cls THEN "c" ELSE ""

BUTTON_CLASSES == {"cascade-copy-button", "cascade-copy-bottom", "custom-copy-btn"}

COMMON_LANGS == {"js", "py"}

WS == {" ", "\n"}

RECURSIVE trim(_)
\* String.prototype.trim
trim(a) ==
    IF a = << >> THEN a
    ELSE IF Head(a) \in WS THEN trim(Tail(a))
    ELSE IF a[Len(a)] \in WS THEN trim(SubSeq(a, 1, Len(a) - 1))
    ELSE a

RECURSIVE domText(_)
RECURSIVE domTextOfKids(_)
\* node.textContent
domText(n) == IF IsEl(n) THEN domTextOfKids(n.kids) ELSE n.text

domTextOfKids(ks) ==
    IF ks = << >> THEN << >> ELSE domText(Head(ks)) \o domTextOfKids(Tail(ks))

RECURSIVE descendants(_)
RECURSIVE descendantsOfKids(_)
\* the elements below n in document order (querySelectorAll('*'))
descendants(n) == descendantsOfKids(n.kids)

descendantsOfKids(ks) ==
    IF ks = << >> THEN << >>
    ELSE (IF IsEl(Head(ks)) THEN << Head(ks) >> \o descendants(Head(ks)) ELSE << >>)
         \o descendantsOfKids(Tail(ks))

\* element.querySelectorAll / querySelector with the selector given as a test
querySelectorAll(n, Match(_)) == SelectSeq(descendants(n), Match)

HasMatch(n, Match(_)) == querySelectorAll(n, Match) # << >>

\* A chain is the list of ancestors of an element, root first, the element
\* last; each entry holds the node and its index among its parent's children.
Link(n, i) == [n |-> n, i |-> i]

\* element.closest(selector): the position in the chain, 0 if none
closest(chain, Match(_)) ==
    LET hits == {k \in 1..Len(chain) : Match(chain[k].n)}
    IN  IF hits = {} THEN 0 ELSE CHOOSE k \in hits : \A j \in hits : j <= k

Ancestors(chain) == SubSeq(chain, 1, Len(chain) - 1)

\* chain[k].n.previousElementSibling exists
previousElementSibling(chain, k) ==
    /\ k > 1
    /\ \E j \in 1..(chain[k].i - 1) : IsEl(chain[k - 1].n.kids[j])

\* ------------------------------------------------------------------------
\* cascade-panel/extract.js: the serializer
\* ------------------------------------------------------------------------
Self(chain) == chain[Len(chain)].n

\* the atoms of three backticks and of one backtick
FENCE == "'''"

TICK == "'"

Repeat(atom, n) == [k \in 1..n |-> atom]

RECURSIVE joinCells(_)
\* cellContents.join(' | ')
joinCells(cells) ==
    IF cells = << >> THEN << >>
    ELSE IF Len(cells) = 1 THEN Head(cells)
    ELSE Head(cells) \o << " ", "|", " " >> \o joinCells(Tail(cells))

\* cell.textContent trimmed, newlines to spaces, pipes escaped (line 38-39)
cellText(cell) ==
    LET t == trim(domText(cell))
    IN  [k \in 1..Len(t) |-> IF t[k] = "\n" THEN " "
                             ELSE IF t[k] = "|" THEN "\\|" ELSE t[k]]

\* extractTable line 45: the row that gets the separator under it
separatorAfter(rowIdx, row) ==
    rowIdx = 0 /\ HasMatch(row, LAMBDA e : e.tag = "TH")

tableRow(rowIdx, row) ==
    LET cells == querySelectorAll(row, LAMBDA e : e.tag \in {"TH", "TD"})
        line(texts) == << "|", " " >> \o joinCells(texts) \o << " ", "|", "\n" >>
    IN  line([k \in 1..Len(cells) |-> cellText(cells[k])])
        \o (IF separatorAfter(rowIdx, row)
               THEN line([k \in 1..Len(cells) |-> << "---" >>])
               ELSE << >>)

RECURSIVE tableRows(_, _)
tableRows(rows, rowIdx) ==
    IF rowIdx >= Len(rows) THEN << >>
    ELSE tableRow(rowIdx, rows[rowIdx + 1]) \o tableRows(rows, rowIdx + 1)

extractTable(tableEl) ==
    tableRows(querySelectorAll(tableEl, LAMBDA e : e.tag = "TR"), 0)

\* extractLatexFromMath(mathEl): << >> stands for null
extractLatexFromMath(chain) ==
    LET mathEl == Self(chain)
        annotation == querySelectorAll(mathEl, LAMBDA e : e.tag = "ANNOTATION")
        wrap(mark, src) == << mark >> \o src \o << mark >>
    IN  IF annotation # << >>
           THEN wrap(IF closest(chain, LAMBDA e : "katex-display" \in e.cls) # 0
                        THEN "$$" ELSE "$",
                     domText(annotation[1]))
        ELSE IF mathEl.tag = "MJX-CONTAINER" /\ mathEl.aria # ""
           THEN wrap(IF mathEl.display = "true" \/ "MathJax_Display" \in mathEl.cls
                        THEN "$$" ELSE "$",
                     << mathEl.aria >>)
        ELSE << >>

\* the closest() tests of line 273-281 and 365-394
InRenderer(chain) ==
    closest(chain, LAMBDA e : \/ e.cls \cap {"katex", "MathJax",
                                             "cascade-mermaid-container"} # {}
                              \/ e.tag = "MJX-CONTAINER") # 0

InLanguage(chain) == closest(chain, LAMBDA e : ClassIncludes(e, "language-")) # 0

InButton(chain) == closest(chain, LAMBDA e : e.cls \cap BUTTON_CLASSES # {}) # 0

\* line 372-378: the dimmed label of a code block that has something before it
IsDimLabel(chain) ==
    LET pre == closest(chain, LAMBDA e : e.tag = "PRE")
    IN  /\ ClassIncludes(Self(chain), "opacity-60")
        /\ pre # 0
        /\ previousElementSibling(chain, pre)

\* line 380-386: a language name next to a code block
IsLangLabel(chain, text) ==
    LET pre == closest(chain, LAMBDA e : e.tag = "PRE")
    IN  /\ Len(trim(text)) = 1 /\ trim(text)[1] \in COMMON_LANGS
        /\ pre > 1
        /\ HasMatch(chain[pre - 1].n, LAMBDA e : ClassIncludes(e, "language-"))

\* the first matching .code-block below the element, its lines joined by
\* newlines, fenced (line 155-163, 169-177); << >> when there is none
RECURSIVE joinLines(_)
joinLines(lines) ==
    IF lines = << >> THEN << >>
    ELSE IF Len(lines) = 1 THEN domText(Head(lines))
    ELSE domText(Head(lines)) \o << "\n" >> \o joinLines(Tail(lines))

fencedCode(element, lang) ==
    LET codeBlock == querySelectorAll(element, LAMBDA e : "code-block" \in e.cls)
    IN  IF codeBlock = << >> THEN << >>
        ELSE << "\n", FENCE >> \o lang \o << "\n" >>
             \o joinLines(querySelectorAll(codeBlock[1],
                                           LAMBDA e : "line-content" \in e.cls))
             \o << "\n", FENCE, "\n" >>

RECURSIVE quoteLines(_)
\* lines.map(line => `> ${line}`).join('\n'), without the first line's mark
quoteLines(a) ==
    IF a = << >> THEN << >>
    ELSE IF Head(a) = "\n" THEN << "\n", ">", " " >> \o quoteLines(Tail(a))
    ELSE << Head(a) >> \o quoteLines(Tail(a))

HeadingLevel(tag) ==
    CASE tag = "H1" -> 1 [] tag = "H2" -> 2 [] tag = "H3" -> 3 [] OTHER -> 0

NumStr(k) == << "1", "2", "3", "4", "5" >>[k]

\* line 292-293: the number of an item of an ordered list
countAllChildren(chain) == chain[Len(chain)].i

itemIndex(chain) ==
    Cardinality({j \in 1..chain[Len(chain)].i :
                    chain[Len(chain) - 1].n.kids[j].tag = "LI"})

RECURSIVE extractNodeContent(_)
RECURSIVE childrenFrom(_, _)
RECURSIVE listItemParts(_, _, _)

\* extractChildrenContent(element): the children from the i-th on
childrenFrom(chain, i) ==
    LET element == Self(chain)
    IN  IF i > Len(element.kids) THEN << >>
        ELSE LET child == element.kids[i]
                 skipped == \/ InRenderer(chain)
                            \/ InLanguage(chain)
                            \/ IsDimLabel(chain)
                            \/ IsLangLabel(chain, child.text)
                            \/ InButton(chain)
             IN  (IF IsEl(child) THEN extractNodeContent(Append(chain, Link(child, i)))
                  ELSE IF skipped THEN << >>
                  ELSE child.text)
                 \o childrenFrom(chain, i + 1)

extractChildrenContent(chain) == childrenFrom(chain, 1)

\* extractNodeContent (LI), line 260-284: the item's own content, or that of
\* its nested lists, from the i-th child on
listItemParts(chain, i, nested) ==
    LET element == Self(chain)
    IN  IF i > Len(element.kids) THEN << >>
        ELSE LET child == element.kids[i]
                 isList == IsEl(child) /\ child.tag \in {"UL", "OL"}
                 skipped == InRenderer(chain) \/ InLanguage(chain) \/ InButton(chain)
             IN  (IF IsEl(child)
                     THEN IF isList = nested
                             THEN extractNodeContent(Append(chain, Link(child, i)))
                             ELSE << >>
                  ELSE IF nested \/ skipped THEN << >>
                  ELSE child.text)
                 \o listItemParts(chain, i + 1, nested)

\* line 101-113: the element is left out
noSkipList(element) == FALSE

skipped(element) ==
    \/ element.tag \in {"STYLE", "SCRIPT", "NOSCRIPT", "TEMPLATE", "SVG"}
    \/ \E w \in BUTTON_CLASSES \cup {"cascade-copy-btn"} : ClassIncludes(element, w)

\* line 126, 133: display math on a line of its own
displayBlock(latex) == << "\n" >> \o latex \o << "\n" >>

\* `mark${content.trim()}mark`, or nothing for empty content
wrapInline(mark, content) ==
    IF trim(content) = << >> THEN << >>
    ELSE << mark >> \o trim(content) \o << mark >>

extractNodeContent(chain) ==
    LET element == Self(chain)
        tagName == element.tag
        isKatex == /\ ClassIncludes(element, "katex")
                   /\ ~ClassIncludes(element, "katex-display")
                   /\ "katex" \in element.cls
        isKatexDisplay == ClassIncludes(element, "katex-display")
        katexEl == querySelectorAll(element, LAMBDA e : "katex" \in e.cls)
        displayLatex ==
            IF katexEl # << >>
               THEN extractLatexFromMath(
                        chain \o << Link(katexEl[1], 1) >>)
               ELSE extractLatexFromMath(chain)
        isCodeEl == LangOf(element) # "" \/ element.aria = "highlighted-code"
        code == fencedCode(element, IF LangOf(element) # ""
                                       THEN << LangOf(element) >> ELSE << >>)
        depth == Cardinality({k \in 1..(Len(chain) - 1) :
                                 chain[k].n.tag \in {"UL", "OL"}})
        indent == Repeat(" ", 2 * (IF depth > 1 THEN depth - 1 ELSE 0))
    IN  IF skipped(element) THEN << >>
        ELSE IF isKatex /\ extractLatexFromMath(chain) # << >>
           THEN extractLatexFromMath(chain)
        ELSE IF isKatexDisplay /\ displayLatex # << >>
           THEN displayBlock(displayLatex)
        ELSE IF tagName = "MJX-CONTAINER" /\ extractLatexFromMath(chain) # << >>
           THEN IF element.display = "true"
                   THEN displayBlock(extractLatexFromMath(chain))
                   ELSE extractLatexFromMath(chain)
        ELSE IF ClassIncludes(element, "cascade-mermaid-container")
           THEN IF element.src # << >>
                   THEN << "\n", FENCE, "mermaid", "\n" >> \o element.src
                        \o << "\n", FENCE, "\n" >>
                   ELSE << >>
        ELSE IF tagName = "TABLE"
           THEN << "\n" >> \o extractTable(element) \o << "\n" >>
        ELSE IF isCodeEl /\ code # << >> THEN code
        ELSE IF HeadingLevel(tagName) > 0
           THEN << "\n" >> \o Repeat("#", HeadingLevel(tagName)) \o << " " >>
                \o trim(extractChildrenContent(chain)) \o << "\n" >>
        ELSE IF tagName \in {"STRONG", "B"}
           THEN wrapInline("**", extractChildrenContent(chain))
        ELSE IF tagName \in {"EM", "I"}
           THEN wrapInline("*", extractChildrenContent(chain))
        ELSE IF tagName \in {"DEL", "S", "STRIKE"}
           THEN wrapInline("~~", extractChildrenContent(chain))
        ELSE IF tagName = "CODE"
                /\ closest(Ancestors(chain), LAMBDA e : e.tag = "PRE") = 0
           THEN IF trim(domText(element)) = << >> THEN << >>
                ELSE << TICK >> \o domText(element) \o << TICK >>
        ELSE IF tagName = "PRE" /\ ClassIncludes(element, "inline")
           THEN LET codeEl == querySelectorAll(element, LAMBDA e : e.tag = "CODE")
                    text == IF codeEl # << >> THEN domText(codeEl[1])
                            ELSE domText(element)
                IN  IF trim(text) = << >> THEN << >>
                    ELSE << TICK >> \o text \o << TICK >>
        ELSE IF tagName = "A"
           THEN LET trimmed == trim(extractChildrenContent(chain))
                IN  IF trimmed = << >> THEN << >>
                    ELSE IF element.href \notin {"", "#", "javascript:"}
                       THEN << "[" >> \o trimmed \o << "](", element.href, ")" >>
                    ELSE trimmed
        ELSE IF tagName = "LI"
           THEN LET trimmedText == trim(listItemParts(chain, 1, FALSE))
                    nestedListContent == listItemParts(chain, 1, TRUE)
                    prefix == IF Len(chain) > 1 /\ chain[Len(chain) - 1].n.tag = "OL"
                                 THEN indent \o << NumStr(itemIndex(chain)), ".", " " >>
                                 ELSE indent \o << "-", " " >>
                IN  IF trimmedText = << >> /\ nestedListContent = << >> THEN << >>
                    ELSE prefix \o trimmedText \o << "\n" >> \o nestedListContent
        ELSE IF tagName \in {"UL", "OL"}
           THEN (IF closest(Ancestors(chain), LAMBDA e : e.tag = "LI") = 0
                    THEN << "\n" >> ELSE << >>)
                \o extractChildrenContent(chain)
        ELSE IF tagName = "P"
           THEN IF trim(extractChildrenContent(chain)) = << >> THEN << >>
                ELSE << "\n" >> \o trim(extractChildrenContent(chain)) \o << "\n" >>
        ELSE IF tagName = "BR" THEN << "\n" >>
        ELSE IF tagName = "BLOCKQUOTE"
           THEN << "\n", ">", " " >>
                \o quoteLines(trim(extractChildrenContent(chain))) \o << "\n" >>
        ELSE IF tagName = "HR" THEN << "\n", "---", "\n" >>
        ELSE extractChildrenContent(chain)

RECURSIVE collapseFrom(_, _)
\* result.replace(/\n{3,}/g, '\n\n'): a stays, from the k-th atom on, n
\* newlines directly before it
keepAllNewlines(a, n) == a

collapseFrom(a, n) ==
    IF a = << >> THEN << >>
    ELSE IF Head(a) = "\n"
       THEN (IF n >= 2 THEN << >> ELSE << "\n" >>) \o collapseFrom(Tail(a), n + 1)
    ELSE << Head(a) >> \o collapseFrom(Tail(a), 0)

\* extractFormattedContent line 419-421: what is made of the intermediate text
cleanUp(result) == trim(collapseFrom(result, 0))

\* extractFormattedContent(element) for a root element
extractFormattedContent(root) == cleanUp(extractNodeContent(<< Link(root, 0) >>))

\* ------------------------------------------------------------------------
\* The trees the serializer is given
\* ------------------------------------------------------------------------
SeqsUpTo(S, n) == UNION {[1..k -> S] : k \in 1..n}

\* ordered lists: items with text, empty items, siblings that are no items
ListKids ==
    {E("LI", {}, << T(<< "a" >>) >>), E("LI", {}, << >>),
     E("DIV", {}, << T(<< "x" >>) >>), T(<< "\n" >>)}

ListTrees == {E("OL", {}, ks) : ks \in SeqsUpTo(ListKids, MaxItems)}

\* tables: rows of header cells, of data cells, of both
TableRowKinds ==
    LET th == E("TH", {}, << T(<< "h" >>) >>)
        td == E("TD", {}, << T(<< "d" >>) >>)
    IN  {E("TR", {}, cells) : cells \in {<< th >>, << td >>, << th, th >>,
                                          << td, td >>}}

TableTrees == {E("TABLE", {}, rows) : rows \in SeqsUpTo(TableRowKinds, MaxRows)}

\* runs of line breaks, blanks and text
BlankKids == {E("BR", {}, << >>), T(<< "a" >>), T(<< " " >>)}

BlankTrees == {E("DIV", {}, ks) : ks \in SeqsUpTo(BlankKids, MaxBlank)}

\* rendered math: KaTeX inline and display, MathJax inline and display,
\* alone, between text, and each in a paragraph among paragraphs
Katex == E("SPAN", {"katex"},
           << E("SPAN", {"katex-mathml"},
                << E("ANNOTATION", {}, << T(<< "s" >>) >>) >>),
              E("SPAN", {"katex-html"}, << T(<< "r" >>) >>) >>)

KatexDisplay == E("SPAN", {"katex-display"}, << Katex >>)

Mjx(display) == [E("MJX-CONTAINER", {}, << T(<< "r" >>) >>)
                    EXCEPT !.aria = "s", !.display = display]

MathNodes == {Katex, KatexDisplay, Mjx(""), Mjx("true")}

MathTreesOf(m) ==
    LET a == T(<< "a" >>)
        b == T(<< "b" >>)
        P(ks) == E("P", {}, ks)
    IN  {m, E("DIV", {}, << a, m, b >>), E("P", {}, << a, m, b >>),
         E("DIV", {}, << P(<< a >>), P(<< m >>), P(<< b >>) >>),
         E("DIV", {}, << P(<< a >>), m, P(<< b >>) >>)}

MathTrees == UNION {MathTreesOf(m) : m \in MathNodes}

\* code: a block (the element labelled highlighted-code, or the one with the
\* language class when there is no label) around a wrapper around the code
\* body, inside a parent; each of the three may carry a language class; the
\* body is line-structured or plain text
CodeBody(lined) ==
    IF lined
       THEN E("DIV", {"code-block"},
              << E("DIV", {"line-content"}, << T(<< "a" >>) >>),
                 E("DIV", {"line-content"}, << T(<< "b" >>) >>) >>)
       ELSE E("CODE", {}, << T(<< "a" >>), T(<< "\n" >>), T(<< "b" >>) >>)

CodeTree(parentCls, blockCls, label, wrapCls, lined) ==
    E("PRE", parentCls,
      << [E("DIV", blockCls, << E("DIV", wrapCls, << CodeBody(lined) >>) >>)
             EXCEPT !.aria = label] >>)

CodeTrees ==
    {CodeTree(pc, bc, label, wc, lined) :
        pc \in {{}, {"language-c"}}, bc \in {{}, {"language-js"}},
        label \in {"", "highlighted-code"}, wc \in {{}, {"language-py"}},
        lined \in BOOLEAN}

\* nodes that match several kinds
OverlapTrees ==
    LET line == E("DIV", {"code-block"},
                  << E("DIV", {"line-content"}, << T(<< "a" >>) >>) >>)
        row == E("TR", {}, << E("TD", {}, << line >>) >>)
    IN  {[E(tag, cls, << row >>) EXCEPT !.src = src] :
            tag \in {"TABLE", "DIV", "SVG", "STYLE"},
            cls \in SUBSET {"language-js", "cascade-mermaid-container",
                            "custom-copy-btn"},
            src \in {<< >>, << "g" >>}}

Trees ==
    ListTrees \cup TableTrees \cup BlankTrees \cup MathTrees \cup CodeTrees
    \cup OverlapTrees

NoOutput == << "none" >>

ExtractInit ==
    /\ tree \in Trees
    /\ treeBefore = tree
    /\ intermediate = NoOutput
    /\ output = NoOutput
    /\ prevOutput = NoOutput
    /\ extracts = 0

\* what the call leaves of the tree: the serializer only reads
stripsButtons(t) ==
    [t EXCEPT !.kids = SelectSeq(t.kids, LAMBDA k : k.cls \cap BUTTON_CLASSES = {}),
              !.cls = t.cls \ BUTTON_CLASSES]

readOnly(t) == t

\* extractFormattedContent(tree), called for a copy
ExtractCall ==
    /\ extracts < MaxExtracts
    /\ \E result \in {extractNodeContent(<< Link(tree, 0) >>)} :
          /\ intermediate' = result
          /\ output' = cleanUp(result)
    /\ prevOutput' = output
    /\ tree' = readOnly(tree)
    /\ extracts' = extracts + 1
    /\ UNCHANGED treeBefore
    /\ UNCHANGED notExtract

ExtractNext == ExtractCall

ExtractIdle ==
    /\ tree = E("DIV", {}, << >>) /\ treeBefore = tree
    /\ intermediate = NoOutput /\ output = NoOutput /\ prevOutput = NoOutput
    /\ extracts = 0

\* ------------------------------------------------------------------------
\* loadConfig
\* ------------------------------------------------------------------------
ConfigInit ==
    /\ cfgPanel \in Panels
    /\ cfgPc = "idle"
    /\ cfgCause = "none"
    /\ cfgData = NoJson
    /\ cfgResult = NoFields

\* loadConfig line 31: the parsed value is not usable as a configuration
spreadAnything(data) == FALSE

useDefaults(data) ==
    \/ data.kind \in {"null", "false", "zero", "empty"}      \* !data
    \/ data.kind \notin {"null", "array", "object"}          \* typeof data !== 'object'
    \/ data.kind = "array"                                   \* Array.isArray(data)

\* { ...DEFAULT_CONFIG, ...data }
spread(defaults, own) ==
    [k \in DOMAIN defaults \cup DOMAIN own |->
        IF k \in DOMAIN own THEN own[k] ELSE defaults[k]]

\* loadConfig() up to `await fetch(...)`
LoadConfigCall ==
    /\ cfgPc = "idle"
    /\ cfgPc' = "fetch"
    /\ UNCHANGED << cfgPanel, cfgCause, cfgData, cfgResult >>
    /\ UNCHANGED notConfig

\* fetch settles: rejected, or a response that is ok or not (line 26-29, 35-38)
FetchSettled ==
    /\ cfgPc = "fetch"
    /\ \E outcome \in {"reject", "notok", "ok"} :
          IF outcome = "ok"
             THEN /\ cfgPc' = "json"
                  /\ UNCHANGED << cfgCause, cfgResult >>
             ELSE /\ cfgPc' = "done"
                  /\ cfgCause' = outcome
                  /\ cfgResult' = DEFAULT_CONFIG(cfgPanel)
    /\ UNCHANGED << cfgPanel, cfgData >>
    /\ UNCHANGED notConfig

\* res.json() settles: rejected for a body that is not JSON, else the value
\* (line 30-38)
JsonSettled ==
    /\ cfgPc = "json"
    /\ cfgPc' = "done"
    /\ \/ /\ cfgCause' = "invalid"
          /\ cfgResult' = DEFAULT_CONFIG(cfgPanel)
          /\ UNCHANGED cfgData
       \/ \E data \in JsonValues :
             /\ cfgCause' = "parsed"
             /\ cfgData' = data
             /\ cfgResult' = IF useDefaults(data)
                                THEN DEFAULT_CONFIG(cfgPanel)
                                ELSE spread(DEFAULT_CONFIG(cfgPanel), data.own)
    /\ UNCHANGED cfgPanel
    /\ UNCHANGED notConfig

ConfigNext == LoadConfigCall \/ FetchSettled \/ JsonSettled

ConfigIdle == ConfigInit /\ cfgPanel = "cascade"

PassIdle == PassInit

MathIdle == MathInit

MermaidIdle == MermaidInit /\ ~windowMermaid

InitScan == ScanInit /\ MathIdle /\ MermaidIdle /\ SplitIdle /\ PassIdle /\ ConfigIdle /\ ExtractIdle

SpecScan == InitScan /\ [][ScanNext]_vars

\* The event loop runs a frame's callbacks to the end and fires a due interval
\* timer: the 1500 ms tick is taken when the document offers a root to bind.
\* The copy button is on, so that every bind also starts a feedback timer.
InitScanLive == InitScan /\ config.copyButton

SpecScanLive ==
    /\ InitScanLive /\ [][ScanNext]_vars
    /\ WF_vars(FrameCallback)
    /\ SF_vars(RootCheckTick)

\* The renderers are studied with the scheduler at rest
ScanIdle == ScanInit /\ config.copyButton /\ docPanel = "p1"

InitMath == ScanIdle /\ MathInit /\ MermaidIdle /\ SplitIdle /\ PassIdle /\ ConfigIdle /\ ExtractIdle

SpecMath == InitMath /\ [][MathNext]_vars

InitMermaid == ScanIdle /\ MathIdle /\ MermaidInit /\ SplitIdle /\ PassIdle /\ ConfigIdle /\ ExtractIdle

SpecMermaid == InitMermaid /\ [][MermaidNext]_vars

\* The awaited promises settle: the script load, the ensureMermaid promise,
\* mermaid.parse and mermaid.render each come to an end
InitMermaidLive ==
    ScanIdle /\ MathIdle /\ MermaidInitOne /\ SplitIdle /\ PassIdle /\ ConfigIdle /\ ExtractIdle

SpecMermaidLive ==
    /\ InitMermaidLive /\ [][MermaidNext]_vars
    /\ WF_vars(MermaidLoadDone)
    /\ WF_vars(MermaidResumeAfterEnsure)
    /\ WF_vars(MermaidParseDone)
    /\ WF_vars(MermaidRenderDone)

\* ------------------------------------------------------------------------
\* The scheduler and the two renderers together: the panel p1 holds one
\* content node c1 (the math element m1) with one code block d1 inside it.
\* ------------------------------------------------------------------------
PanelMath == "m1"
PanelDiagram == "d1"

\* scanClassic(root), line 62-83, for the connected roots of one call site:
\* every root of p1 contains c1, so renderMath(c1) and then scanMermaid run
\* up to their first await
scanClassicCalls(roots) ==
    IF \E r \in roots : isConnected(r) /\ NodePanel(r) = "p1"
       THEN /\ renderMath(PanelMath)
            /\ renderMermaid(PanelDiagram)
            /\ UNCHANGED << katexLoaded, windowKatex, draining, mathText,
                            mathAttr, mathSnapshot, mathAttached, renderedText,
                            failText >>
            /\ UNCHANGED << mermaidIdCounter, windowMermaid, dSource, dAttr,
                            dErrorProp, dHidden, dContainer, dAttached,
                            dLastEnd >>
       ELSE UNCHANGED << mathVars, mermaidVars >>

\* The observer callback of bindRoot (line 164-179) for one batch of records
\* whose added nodes / character-data parents are `nodes`
observerReports(nodes) ==
    IF activeObserver # Null /\ nodes # {}
       THEN /\ scheduleScan(nodes)
            /\ UNCHANGED << config, activeRoot, activeObserver, feedbackTimer,
                            rootCheckTimer, docPanel, detached, liveObservers,
                            liveTimers, frameRun, nextId, frameScans,
                            frameFlushes, rebindSinceFrame, fullScans,
                            frameClean, feedbackScans >>
       ELSE UNCHANGED scanVars

\* textContent of the content node after nodes with text were put into, or
\* taken out of, a diagram container: another text with the same math in it
diagramTouches(t) == [t EXCEPT !.rev = @ + 4]

\* the texts kept apart: an attempt changes the container's text at most once
TextsLeft == mathText[PanelMath].rev < 4 * MaxAttempts

\* init(): bindRoot scans the panel, then observes it
PanelInit ==
    /\ rootCheckTimer = Null
    /\ frameRun = 0
    /\ ~draining /\ microtasks = << >>
    /\ rootCheckTimer' = [kind |-> "rootCheck", id |-> 0, root |-> None]
    /\ bindRoot(docPanel)
    /\ scanClassicCalls({docPanel})
    /\ UNCHANGED << splitVars, passVars, cfgVars, extractVars >>

\* flushScan(): the animation-frame callback and the scans it makes
PanelFlush ==
    /\ frameRun = 0 /\ rafQueue > 0
    /\ ~draining /\ microtasks = << >>
    /\ flushScan(TRUE)
    /\ scanClassicCalls(pendingNodes)
    /\ frameRun' = rafQueue - 1
    /\ rafQueue' = 0
    /\ frameClean' = ~rebindSinceFrame
    /\ batchesSinceFrame' = 0 /\ rebindSinceFrame' = FALSE /\ staleQueued' = {}
    /\ UNCHANGED << config, activeRoot, activeObserver, feedbackTimer,
                    rootCheckTimer, docPanel, detached, liveObservers, liveTimers,
                    nextId, fullScans, feedbackScans >>
    /\ UNCHANGED << splitVars, passVars, cfgVars, extractVars >>

\* The host streams a further revision of the text into the content node
PanelHostEditsMath ==
    /\ microtasks = << >>
    /\ mathText[PanelMath].rev < MaxRev
    /\ mathText' = [mathText EXCEPT
                       ![PanelMath] = [rev |-> @.rev + 1, typeset |-> FALSE]]
    /\ observerReports({"tContent"})
    /\ UNCHANGED << katexLoaded, katexLoading, windowKatex, loadStage,
                    loadsStarted, awaiting, microtasks, draining, mathAttr,
                    mathSnapshot, rawText, mathAttached, lastCall, renderedText,
                    failText >>
    /\ UNCHANGED << mermaidVars, splitVars, passVars, cfgVars, extractVars >>

\* The host rewrites the code block's text, once
PanelHostEditsDiagram ==
    /\ microtasks = << >>
    /\ dSource[PanelDiagram] = "A"
    /\ dSource' = [dSource EXCEPT ![PanelDiagram] = "B"]
    /\ observerReports({"tContent"})
    /\ UNCHANGED << mermaidReady, mermaidReadyPromise, mermaidIdCounter,
                    windowMermaid, dLoad, dLoads, dSourceProp, dAttr, dErrorProp,
                    dRendering, dHidden, dContainer, dAttached, dInflight,
                    dAttempts, dLastCall, dLastEnd, dLastFail >>
    /\ UNCHANGED << mathVars, splitVars, passVars, cfgVars, extractVars >>

\* renderMath resumes: the spans it puts into the content node are reported
PanelMathResume ==
    /\ renderMathResumes
    /\ observerReports(IF mathText' # mathText THEN {"tContent"} ELSE {})
    /\ UNCHANGED << mermaidVars, splitVars, passVars, cfgVars, extractVars >>

\* mermaid.parse settles: a container created at line 198-201 is reported
PanelParseDone ==
    /\ mermaidParseSettles
    /\ observerReports(IF dContainer' # dContainer /\ dContainer'[PanelDiagram].exists
                             /\ ~dContainer[PanelDiagram].exists
                          THEN {"tContent"} ELSE {})
    /\ UNCHANGED << mathVars, splitVars, passVars, cfgVars, extractVars >>

\* mermaid.render settles: the svg put into the container is reported, and so
\* is whatever the engine itself left in the container while it ran
PanelRenderDone ==
    /\ TextsLeft
    /\ mermaidRenderSettles
    /\ \E engineTouched \in BOOLEAN :
          observerReports(IF dAttr'[PanelDiagram] \/ engineTouched
                             THEN {"tContent"} ELSE {})
    /\ mathText' = IF dContainer'[PanelDiagram].content # dContainer[PanelDiagram].content
                      THEN [mathText EXCEPT ![PanelMath] = diagramTouches(@)]
                      ELSE mathText
    /\ UNCHANGED << katexLoaded, katexLoading, windowKatex, loadStage,
                    loadsStarted, awaiting, microtasks, draining, mathAttr,
                    mathSnapshot, rawText, mathAttached, lastCall, renderedText,
                    failText >>
    /\ UNCHANGED << splitVars, passVars, cfgVars, extractVars >>

PanelNext ==
    \/ PanelInit
    \/ PanelFlush
    \/ PanelHostEditsMath
    \/ PanelHostEditsDiagram
    \/ PanelMathResume
    \/ MermaidLoadDone
    \/ MermaidResumeAfterEnsure
    \/ PanelParseDone
    \/ PanelRenderDone

\* KaTeX is in the page already (ensureKatex line 55 returns true): a pass
\* that cannot get the engine puts nothing into the document
MathLoaded ==
    /\ katexLoaded = TRUE
    /\ katexLoading = 1
    /\ windowKatex = TRUE
    /\ loadStage = [i \in 1..MaxLoads |-> IF i = 1 THEN "true" ELSE "unused"]
    /\ loadsStarted = 1
    /\ awaiting = << >>
    /\ microtasks = << >>
    /\ draining = FALSE
    /\ mathText \in [MathEls -> {[rev |-> 0, typeset |-> FALSE]}]
    /\ mathAttr = [e \in MathEls |-> FALSE]
    /\ mathSnapshot = [e \in MathEls |-> NoText]
    /\ rawText = [e \in MathEls |-> NoText]
    /\ mathAttached = [e \in MathEls |-> TRUE]
    /\ lastCall = [el |-> None, n |-> 0]
    /\ renderedText = [e \in MathEls |-> NoText]
    /\ failText = [e \in MathEls |-> NoText]

\* d1 is the only code block of the panel; the scans never reach m2
InitPanel ==
    ScanIdle /\ MathLoaded /\ MermaidInitOne /\ SplitIdle /\ PassIdle /\ ConfigIdle /\ ExtractIdle

SpecPanel == InitPanel /\ [][PanelNext]_vars

\* The browser runs init at load, fires a requested animation frame, drains
\* the microtask queue, and every awaited load, parse and render settles
SpecPanelLive ==
    /\ InitPanel /\ [][PanelNext]_vars
    /\ WF_vars(PanelInit)
    /\ WF_vars(PanelFlush)
    /\ WF_vars(PanelMathResume)
    /\ WF_vars(MermaidLoadDone)
    /\ WF_vars(MermaidResumeAfterEnsure)
    /\ WF_vars(PanelParseDone)
    /\ WF_vars(PanelRenderDone)

InitSplit == ScanIdle /\ MathIdle /\ MermaidIdle /\ SplitInit /\ PassIdle /\ ConfigIdle /\ ExtractIdle

SpecSplit == InitSplit /\ [][SplitNext]_vars

InitPass == ScanIdle /\ MathIdle /\ MermaidIdle /\ SplitIdle /\ PassInit /\ ConfigIdle /\ ExtractIdle

SpecPass == InitPass /\ [][PassNext]_vars

InitConfig ==
    /\ ScanIdle /\ MathIdle /\ MermaidIdle /\ SplitIdle /\ PassIdle
    /\ ConfigInit /\ ExtractIdle

SpecConfig == InitConfig /\ [][ConfigNext]_vars

InitExtract ==
    /\ ScanIdle /\ MathIdle /\ MermaidIdle /\ SplitIdle /\ PassIdle
    /\ ConfigIdle /\ ExtractInit

SpecExtract == InitExtract /\ [][ExtractNext]_vars

\* ------------------------------------------------------------------------
\* Properties of the change scheduler
\* ------------------------------------------------------------------------

\* C1: between two animation frames with no bindRoot switch in between, the
\* batches handed to scheduleScan leave exactly one flushScan callback
\* outstanding, and a frame entered that way runs one flushScan that scans
\* every resolved root once.
C1_OneFlushPerTick ==
    /\ (frameRun = 0 /\ ~rebindSinceFrame /\ batchesSinceFrame >= 1) => rafQueue = 1
    /\ frameClean => (frameFlushes <= 1 /\ \A n \in ScanNodes : frameScans[n] <= 1)

\* C2: at most one observer and one feedback timer are live, they are the
\* ones of activeRoot, and a switch of activeRoot leaves none of the earlier
\* ones alive.
C2_Inv ==
    /\ Cardinality(liveObservers) <= 1
    /\ Cardinality(liveTimers) <= 1
    /\ \A o \in liveObservers : o = activeObserver /\ o.root = activeRoot
    /\ \A t \in liveTimers : t = feedbackTimer /\ t.root = activeRoot

C2_SingleWatchers ==
    /\ []C2_Inv
    /\ [][activeRoot' # activeRoot =>
            /\ liveObservers \cap liveObservers' = {}
            /\ liveTimers \cap liveTimers' = {}]_vars

C2_Witness ==
    /\ activeRoot = "p2"
    /\ nextId = 3
    /\ config.copyButton
    /\ activeObserver \in liveObservers
    /\ feedbackTimer \in liveTimers

\* ------------------------------------------------------------------------
\* Properties of the math loader and renderer
\* ------------------------------------------------------------------------
LoadsInFlight == {i \in 1..MaxLoads : InFlight(i)}

\* A renderMath call was made in this step
MathCalled == lastCall'.n # lastCall.n

\* C3: at most one KaTeX load is in flight; every suspended ensureKatex
\* caller waits on that load, and no load is started while one is in flight.
C3_Inv ==
    /\ Cardinality(LoadsInFlight) <= 1
    /\ \A k \in 1..Len(awaiting) :
          InFlight(awaiting[k].load) /\ awaiting[k].load = katexLoading

C3_SingleLoad ==
    /\ []C3_Inv
    /\ [][LoadsInFlight # {} => loadsStarted' = loadsStarted]_vars

C3_Witness ==
    /\ loadsStarted = 2
    /\ Len(awaiting) = 2
    /\ awaiting[1].load = 2 /\ awaiting[2].load = 2
    /\ awaiting[1].el # awaiting[2].el
    /\ InFlight(2)

\* C4: when the latest load has ended in failure, the next ensureKatex call
\* starts a fresh load, however many loads have failed before.
LastLoadFailed == loadsStarted >= 1 /\ loadStage[loadsStarted] = "false"

EngineRequested ==
    \/ awaiting' # awaiting
    \/ microtasks' # microtasks
    \/ loadsStarted' # loadsStarted

C4_RetryAfterFailure ==
    [][(MathCalled /\ EngineRequested /\ LastLoadFailed) =>
          /\ loadsStarted' = loadsStarted + 1
          /\ loadStage'[loadsStarted'] = "style"
          /\ katexLoading' = loadsStarted'
          /\ awaiting' = Append(awaiting, [el |-> lastCall'.el,
                                           load |-> loadsStarted'])]_vars

C4_Witness ==
    /\ loadsStarted = MaxLoads
    /\ \A i \in 1..(MaxLoads - 1) : loadStage[i] = "false"
    /\ InFlight(MaxLoads)
    /\ katexLoading = MaxLoads

\* C10: a renderMath call returns without asking for the engine and without
\* touching the element exactly when the element is marked rendered and its
\* text is the text recorded at its last successful pass, or the text has no
\* math hint.
C10_SkipIffUnchanged ==
    [][MathCalled =>
          LET e == lastCall'.el
          IN  (~EngineRequested /\ rawText' = rawText /\ mathText' = mathText
                  /\ mathAttr' = mathAttr)
              <=> \/ mathAttr[e] /\ mathText[e] = renderedText[e]
                  \/ ~MathHint(mathText[e])]_vars

\* a pass that ran again after the host changed a rendered element's text
C10_Witness ==
    \E e \in MathEls :
        /\ mathAttr[e]
        /\ mathText[e].rev = 1 /\ mathText[e].typeset
        /\ mathSnapshot[e] = mathText[e]
        /\ rawText[e].rev = 0
        /\ lastCall.el = e
        /\ microtasks = << >>

\* ------------------------------------------------------------------------
\* Properties of the diagram loader and renderer
\* ------------------------------------------------------------------------
\* A renderMermaid call was made in this step, for this node
DiagCalled == dLastCall'.n # dLastCall.n

InflightOf(e) == {k \in 1..Len(dInflight) : dInflight[k].el = e}

\* An attempt ended in this step
DiagEnded == dLastEnd'.n # dLastEnd.n

\* C5: once the engine load has failed, the next ensureMermaid call (made by
\* the next render attempt) starts a new load.
C5_LoadRetried ==
    [][(DiagCalled /\ dAttempts' = dAttempts + 1 /\ dLoad = "failed")
          => dLoads' = dLoads + 1]_vars

\* C6: a node has at most one render in progress, and a call made for a node
\* whose render is in progress changes nothing.
C6_Inv == \A e \in DiagEls : Cardinality(InflightOf(e)) <= 1

C6_OneRenderPerNode ==
    /\ []C6_Inv
    /\ [][(DiagCalled /\ InflightOf(dLastCall'.el) # {}) =>
             /\ dInflight' = dInflight
             /\ dAttempts' = dAttempts
             /\ dSourceProp' = dSourceProp
             /\ dRendering' = dRendering
             /\ dErrorProp' = dErrorProp
             /\ dAttr' = dAttr /\ dHidden' = dHidden
             /\ dContainer' = dContainer]_vars

\* a call that found a render of its node in progress, with a newer source
C6_Witness ==
    /\ dLastCall.busy
    /\ \E k \in 1..Len(dInflight) :
          /\ dInflight[k].el = dLastCall.el
          /\ dInflight[k].source # dSource[dLastCall.el]
          /\ dSource[dLastCall.el] # ""
          /\ dSourceProp[dLastCall.el] = dInflight[k].source

C8_FailureOutcome ==
    [][(DiagEnded /\ dLastEnd'.how \in {"parse", "render", "badsvg"}) =>
          LET e == dLastEnd'.el
          IN  /\ ~dAttr'[e]
              /\ dErrorProp'[e] = dSourceProp[e]
              /\ dErrorProp'[e] = dLastEnd'.source
              /\ ~dHidden'[e]
              /\ dContainer'[e].exists => (dContainer'[e].content = ""
                                           /\ dContainer'[e].hidden)
              /\ ~dRendering'[e]]_vars

\* a re-render of a rendered node failed: the old graphic is gone
C8_Witness ==
    \E e \in DiagEls :
        /\ dLastEnd.el = e /\ dLastEnd.how = "badsvg" /\ dLastEnd.source = "B"
        /\ dContainer[e].exists /\ dContainer[e].source = "A"
        /\ dContainer[e].content = "" /\ dContainer[e].hidden
        /\ ~dAttr[e] /\ ~dHidden[e] /\ dErrorProp[e] = "B"

\* C9 (both renderers): a render that resumes on a node that is no longer
\* attached leaves the node as it is: no child replaced, no rendered marker
\* set, no container inserted.
MathDetachedUntouched ==
    \A e \in MathEls :
        ~mathAttached[e] => (mathText'[e] = mathText[e] /\ mathAttr'[e] = mathAttr[e])

DiagDetachedUntouched ==
    \A e \in DiagEls :
        ~dAttached[e] => /\ dAttr'[e] = dAttr[e]
                         /\ dHidden'[e] = dHidden[e]
                         /\ dContainer'[e] = dContainer[e]

C9_NoMutationWhenDetached ==
    [][MathDetachedUntouched /\ DiagDetachedUntouched]_vars

\* ------------------------------------------------------------------------
\* Properties of a failed math pass
\* ------------------------------------------------------------------------
\* The renderMath continuation of element e ends in this step without a
\* successful pass (the load failed, or the pass threw)
PassFailed(e) ==
    /\ microtasks # << >>
    /\ Head(microtasks).kind = "render"
    /\ Head(microtasks).el = e
    /\ microtasks' = Tail(microtasks)
    /\ failText'[e] # NoText

\* C11: when the engine load fails or the pass throws, the element is left
\* unmarked; and a later renderMath call that finds the element with the
\* text of that failure, still holding math, asks for the engine again
\* instead of skipping.
C11_FailureRetryable ==
    /\ [][\A e \in MathEls : PassFailed(e) => ~mathAttr'[e]]_vars
    /\ [][(MathCalled /\ failText[lastCall'.el] = mathText[lastCall'.el]
                      /\ MathHint(mathText[lastCall'.el]))
             => EngineRequested]_vars

\* the first load failed for e, and the next call on e started a second load
C11_Witness ==
    \E e \in MathEls :
        /\ failText[e] = mathText[e]
        /\ ~mathAttr[e]
        /\ loadsStarted = 2 /\ loadStage[1] = "false" /\ InFlight(2)
        /\ awaiting = << [el |-> e, load |-> 2] >>
        /\ lastCall.el = e

\* ------------------------------------------------------------------------
\* Properties of the delimiter scan
\* ------------------------------------------------------------------------
TokenLen(t) == Len(t.left) + Len(t.data) + Len(t.right)

\* Index in the input of the first character of token k
RECURSIVE TokenStart(_, _)
TokenStart(toks, k) ==
    IF k <= 1 THEN 0 ELSE TokenStart(toks, k - 1) + TokenLen(toks[k - 1])

\* Index in the input of the closing delimiter of math token k
CloserAt(toks, k) == TokenStart(toks, k) + Len(toks[k].left) + Len(toks[k].data)

MathTokens == {k \in 1..Len(tokens) : tokens[k].type = "math"}

\* C14: no `$...$` token of the split has its opening `$` followed by white
\* space, or its closing `$` preceded by white space or followed by `$`.
C14_DollarGuards ==
    splitPc = "split" =>
       \A k \in MathTokens :
          tokens[k].left = << "$" >> =>
             LET o == TokenStart(tokens, k)
                 c == CloserAt(tokens, k)
             IN  /\ CharAt(runText, o) = "$" /\ CharAt(runText, c) = "$"
                 /\ ~IsSpace(CharAt(runText, o + 1))
                 /\ ~IsSpace(CharAt(runText, c - 1))
                 /\ CharAt(runText, c + 1) # "$"

\* `$a $$`: the `$` after the blank is passed over as a closer
C14_Witness ==
    /\ splitPc = "split"
    /\ runText = << "$", "a", " ", "$", "$" >>
    /\ tokens = << MathToken(<< "a", " ", "$" >>, DELIMITERS[4]) >>

\* C15: no math token of the split has an opening or a closing delimiter
\* that an odd number of consecutive backslashes precedes in the input.
C15_NoEscapedDelimiter ==
    splitPc = "split" =>
       \A k \in MathTokens :
          /\ ~isEscaped(runText, TokenStart(tokens, k))
          /\ ~isEscaped(runText, CloserAt(tokens, k))

\* The openers findNextDelimiter chooses among: for each delimiter pair its
\* first occurrence at or after the scan position, when that occurrence
\* passes the pair's opener guards
FirstOccurrence(text, left, startIndex, i) ==
    /\ i >= startIndex
    /\ StartsAt(text, left, i)
    /\ \A j \in startIndex..(i - 1) : ~StartsAt(text, left, j)

Candidates(text, startIndex) ==
    {c \in [index : 0..Len(text), k : 1..Len(DELIMITERS)] :
        /\ FirstOccurrence(text, DELIMITERS[c.k].left, startIndex, c.index)
        /\ DELIMITERS[c.k].left = << "$" >> =>
              /\ slashCount(text, c.index) % 2 = 0
              /\ ~IsSpace(CharAt(text, c.index + 1))}

\* C16: findNextDelimiter returns the candidate opener of smallest index,
\* the longer delimiter when two candidates start at the same index, and
\* nothing only when there is no candidate; a text run that begins with
\* `$$` is never split with an inline `$` token first.
C16_DelimiterSelection ==
    /\ splitPc = "find" =>
          LET cands == Candidates(runText, found.start)
              m == found.match
          IN  /\ (m = NoMatch) <=> (cands = {})
              /\ m # NoMatch =>
                    /\ m \in cands
                    /\ \A c \in cands :
                          \/ m.index < c.index
                          \/ /\ m.index = c.index
                             /\ Len(DELIMITERS[m.k].left) >= Len(DELIMITERS[c.k].left)
    /\ (splitPc = "split" /\ StartsAt(runText, << "$", "$" >>, 0)) =>
          ~(tokens[1].type = "math" /\ tokens[1].left = << "$" >>)

\* `$$a$`: both `$$` and `$` are candidates at index 0
C16_Witness ==
    /\ splitPc = "find"
    /\ runText = << "$", "$", "a", "$" >>
    /\ found = [start |-> 0, match |-> [index |-> 0, k |-> 1]]
    /\ Cardinality(Candidates(runText, 0)) = 2

\* C17 as stated: the tokens of the split alternate between text and math.
C17_Alternation ==
    splitPc = "split" =>
       \A k \in 1..(Len(tokens) - 1) : tokens[k].type # tokens[k + 1].type

\* C17 as amended: no text token is empty, and two text tokens follow one
\* another only where an opener has no closer: the second one then starts at
\* that opener and is the last token.  Math tokens may follow one another.
C17_TextRuns ==
    splitPc = "split" =>
       /\ \A k \in 1..Len(tokens) :
             tokens[k].type = "text" => tokens[k].data # << >>
       /\ \A k \in 1..(Len(tokens) - 1) :
             (tokens[k].type = "text" /\ tokens[k + 1].type = "text") =>
                /\ k + 1 = Len(tokens)
                /\ findNextDelimiter(runText, TokenStart(tokens, k)).index
                      = TokenStart(tokens, k + 1)

\* `a$a`: the text before the unclosed `$`, then the rest as text
C17_Witness ==
    /\ splitPc = "split"
    /\ runText = << "a", "$", "a" >>
    /\ tokens = << TextToken(<< "a" >>), TextToken(<< "$", "a" >>) >>

\* ------------------------------------------------------------------------
\* Properties of the math pass over a content element
\* ------------------------------------------------------------------------
Containers == {n \in AllNodes(kids) : n.kind = "wrapper"}

\* C12: every math container holds the engine's output or exactly the
\* literal left delimiter + source + right delimiter of its token, none is
\* empty, and no later pass makes a math token out of fallback text.
C12_TokenFallback ==
    /\ \A w \in Containers :
          /\ w.token.type = "math"
          /\ w.text # << >>
          /\ \/ w.out = "engine" /\ w.text = EngineText
             \/ /\ w.out = "fallback"
                /\ w.text = w.token.left \o w.token.data \o w.token.right
    /\ ~rescanned

\* The host's split of `$a_b_$`: text `$a`, emphasis `b`, text `$`
SplitByHost ==
    << TextNode(<< "$", "a" >>),
       Node("em", << >>, << TextNode(<< "b" >>) >>, NoToken, ""),
       TextNode(<< "$" >>) >>

\* The first pass has run over SplitByHost and the host has added nothing since
PassedSplitByHost ==
    /\ passes = 1
    /\ hostKids = SplitByHost
    /\ passMark.snapshot = ElText(kids)

\* C13 as stated: the pass over text `$a`, emphasis `b`, text `$` makes one
\* math token of the run, with source a_b.
C13_SourceAB ==
    PassedSplitByHost =>
       /\ Len(kids) = 1 /\ kids[1].kind = "wrapper"
       /\ kids[1].token.data = << "a", "_", "b" >>

\* C13 as amended: the source of that token is a_b_, the emphasis text with
\* its marker restored on both sides.
C13_SourceMarkedBothSides ==
    PassedSplitByHost =>
       /\ Len(kids) = 1 /\ kids[1].kind = "wrapper"
       /\ kids[1].token = MathToken(<< "a", "_", "b", "_" >>, DELIMITERS[4])

C13_Witness ==
    /\ PassedSplitByHost
    /\ kids = << Node("wrapper", << "$", "a", "_", "b", "_", "$" >>, << >>,
                      MathToken(<< "a", "_", "b", "_" >>, DELIMITERS[4]),
                      "fallback") >>


\* ------------------------------------------------------------------------
\* Scan: flushing, rebinding and root resolution

\* a step in which flushScan runs
FlushStep == rafQueue' < rafQueue \/ frameRun' < frameRun

\* the nodes scanClassic went through in that step
ScannedInStep ==
    {n \in ScanNodes :
        frameScans'[n] > (IF rafQueue' < rafQueue THEN 0 ELSE frameScans[n])}

\* C18: a flush scans only roots that were pending and are attached when it
\* runs, and it leaves the pending set empty and the scheduled flag false.
C18_FlushSafety ==
    [][FlushStep =>
          /\ ScannedInStep \subseteq {n \in pendingNodes : isConnected(n)}
          /\ skippedNodes' = pendingNodes \ ScannedInStep
          /\ pendingNodes' = {}
          /\ ~scheduled']_vars

\* a flush took a pending set with an attached and a removed root: it scanned
\* the one and skipped the other
C18_Witness ==
    /\ frameFlushes = 1
    /\ "c1" \in skippedNodes
    /\ "c1" \in detached /\ isConnected("s1")
    /\ frameScans["c1"] = 0 /\ frameScans["s1"] = 1
    /\ pendingNodes = {} /\ ~scheduled

\* C19: a root that was pending when bindRoot cleaned up is not in the pending
\* set afterwards unless it is queued again, and no flush of the frame that
\* follows, a flush requested before the rebind included, scans it.
C19_RebindCancels ==
    /\ [](pendingNodes \cap staleQueued = {})
    /\ [][FlushStep => ScannedInStep \cap staleQueued = {}]_vars

\* the first of two flushes of the frame after a rebind has run while a root
\* queued under the previous root was attached, and did not scan that root
C19_Witness ==
    /\ ~frameClean /\ frameFlushes = 1 /\ frameRun > 0
    /\ \E n \in staleQueued :
          /\ isConnected(n)
          /\ NodePanel(n) # activeRoot
          /\ frameScans[n] = 0

\* what each mutated node of the page resolves to while a root is bound: the
\* content container around it, else the section around it, else the root
Resolution ==
    /\ resolveScanRoot("tContent") = "c1"
    /\ resolveScanRoot("tText") = "c1"
    /\ resolveScanRoot("tOther") = "c2"
    /\ resolveScanRoot("tSection") = "s1"
    /\ resolveScanRoot("tBare") = activeRoot
    /\ resolveScanRoot("tLoose") = None

\* C20: resolveScanRoot gives the nearest content container, else the nearest
\* section, else the active root, and nothing without an active root or for a
\* node outside the panel; what is queued is a resolved root of the bound
\* panel, and a frame is requested only when something was queued.
C20_RootResolution ==
    /\ [](/\ activeRoot # None => Resolution
          /\ activeRoot = None => \A t \in Targets : resolveScanRoot(t) = None
          /\ None \notin pendingNodes
          /\ \A n \in pendingNodes : NodePanel(n) = activeRoot
          /\ scheduled => pendingNodes # {})
    /\ [][rafQueue' > rafQueue => (pendingNodes' # {} /\ scheduled')]_vars

\* a content container, a section and the root itself are queued under p1
C20_Witness ==
    /\ activeRoot = "p1"
    /\ pendingNodes = {"c1", "s1", "p1"}
    /\ scheduled /\ rafQueue > 0

\* ------------------------------------------------------------------------
\* Math engine: the cache of a successful load

\* a step in which renderMath reaches ensureKatex
EnsureCallStep == lastCall' # lastCall /\ ~skipRender(lastCall'.el)

\* C30: once a load has succeeded katexLoaded stays true, no further load is
\* started, and every later ensureKatex call returns true at once.
C30_CachedOnSuccess ==
    [][katexLoaded =>
          /\ katexLoaded'
          /\ loadsStarted' = loadsStarted
          /\ katexLoading' = katexLoading
          /\ EnsureCallStep =>
                /\ microtasks' = Append(microtasks,
                                        [kind |-> "render", el |-> lastCall'.el,
                                         load |-> 0, loaded |-> TRUE])
                /\ awaiting' = awaiting]_vars

\* after a failed and a successful load, a further call has returned true
\* and its caller is about to resume
C30_Witness ==
    /\ katexLoaded /\ loadsStarted = 2
    /\ loadStage[1] = "false" /\ loadStage[2] = "true"
    /\ \E k \in 1..Len(microtasks) :
          microtasks[k] = [kind |-> "render", el |-> lastCall.el,
                           load |-> 0, loaded |-> TRUE]

\* ------------------------------------------------------------------------
\* Configuration loading

\* C29: loadConfig resolves to the defaults after a failed fetch, a response
\* that is not ok, a body that is no JSON, or a parsed value that is null, no
\* object or an array; else to the defaults overridden by the supplied fields;
\* every default key is in the result.
C29_ConfigNeverFails ==
    cfgPc = "done" =>
       LET defaults == DEFAULT_CONFIG(cfgPanel)
           supplied == cfgData.own
       IN  /\ DOMAIN defaults \subseteq DOMAIN cfgResult
           /\ (cfgCause \in {"reject", "notok", "invalid"}
               \/ cfgData.kind # "object") => cfgResult = defaults
           /\ (cfgCause = "parsed" /\ cfgData.kind = "object") =>
                 /\ DOMAIN cfgResult = DOMAIN defaults \cup DOMAIN supplied
                 /\ \A k \in DOMAIN supplied : cfgResult[k] = supplied[k]
                 /\ \A k \in DOMAIN defaults \ DOMAIN supplied :
                       cfgResult[k] = defaults[k]

\* a config.json that turns math off, sets fontSize to null and has an
\* unknown key has been loaded by the sidebar entry
C29_Witness ==
    /\ cfgPc = "done" /\ cfgPanel = "sidebar" /\ cfgCause = "parsed"
    /\ cfgData.kind = "object" /\ DOMAIN cfgData.own = SuppliedKeys
    /\ cfgResult.math = "false" /\ cfgResult.fontSize = "null"
    /\ cfgResult.mermaid = "true" /\ cfgResult.maxWidthRatio = "75"

\* ------------------------------------------------------------------------
\* Serializer

NewlineRuns(a) ==
    {r \in (1..Len(a)) \X (1..Len(a)) :
        /\ r[1] <= r[2]
        /\ \A k \in r[1]..r[2] : a[k] = "\n"
        /\ r[1] = 1 \/ a[r[1] - 1] # "\n"
        /\ r[2] = Len(a) \/ a[r[2] + 1] # "\n"}

RunLen(r) == r[2] - r[1] + 1

Tidy(a) ==
    /\ \A r \in NewlineRuns(a) : RunLen(r) <= 2
    /\ a = << >> \/ (a[1] \notin WS /\ a[Len(a)] \notin WS)

\* the text between the first and the last atom that is no white space
Core(a) ==
    LET inked == {k \in 1..Len(a) : a[k] \notin WS}
    IN  IF inked = {} THEN << >>
        ELSE SubSeq(a, CHOOSE k \in inked : \A j \in inked : k <= j,
                       CHOOSE k \in inked : \A j \in inked : j <= k)

RECURSIVE rle(_, _)
\* a text as a list of atoms and lengths of newline runs; n newlines are open
rle(a, n) ==
    LET run == IF n > 0 THEN << [nl |-> n, atom |-> "\n"] >> ELSE << >>
    IN  IF a = << >> THEN run
        ELSE IF Head(a) = "\n" THEN rle(Tail(a), n + 1)
        ELSE run \o << [nl |-> 0, atom |-> Head(a)] >> \o rle(Tail(a), 0)

Cap2(r) == [k \in 1..Len(r) |-> IF r[k].nl > 2 THEN [r[k] EXCEPT !.nl = 2] ELSE r[k]]

\* C22 as stated: the returned text has no run of three or more newlines and
\* no white space at either end, and every run of three or more newlines of
\* the intermediate text is a run of exactly two in it (so it has at least as
\* many runs of two as the intermediate text has runs of three or more).
C22_BlankLineCollapse ==
    extracts >= 1 =>
       /\ Tidy(output)
       /\ Cardinality({r \in NewlineRuns(output) : RunLen(r) = 2})
             >= Cardinality({r \in NewlineRuns(intermediate) : RunLen(r) >= 3})

\* C22, amended: the returned text is the intermediate text between its first
\* and last atom that is no white space, with every run of three or more
\* newlines in that part cut to two; it has no run of three and no white
\* space at either end.
C22_CollapseInside ==
    extracts >= 1 =>
       /\ Tidy(output)
       /\ rle(output, 0) = Cap2(rle(Core(intermediate), 0))

\* three line breaks between two texts have become a blank line
C22_Witness ==
    /\ extracts >= 1
    /\ intermediate = << "a", "\n", "\n", "\n", "a" >>
    /\ output = << "a", "\n", "\n", "a" >>

\* where the prefix `n. ` stands in a text
PrefixAt(a, n) ==
    {i \in 1..(Len(a) - 2) : a[i] = NumStr(n) /\ a[i + 1] = "." /\ a[i + 2] = " "}

\* the list-item children of a list with something to serialize, each with
\* its 1-based position among the list-item children
NumberedItems(list) ==
    {Cardinality({i \in 1..j : list.kids[i].tag = "LI"}) :
        j \in {j \in 1..Len(list.kids) :
                  list.kids[j].tag = "LI" /\ list.kids[j].kids # << >>}}

\* C23: in the text of an ordered list exactly the non-empty items appear,
\* each once, in order, under the number of its position among the list-item
\* children and followed by its text.
C23_OrderedNumbering ==
    (extracts >= 1 /\ tree.tag = "OL") =>
       /\ \A n \in 1..(MaxItems + 1) :
             /\ Cardinality(PrefixAt(output, n))
                   = (IF n \in NumberedItems(tree) THEN 1 ELSE 0)
             /\ \A i \in PrefixAt(output, n) : output[i + 3] = "a"
       /\ \A n, m \in NumberedItems(tree) :
             n < m => \A i \in PrefixAt(output, n), j \in PrefixAt(output, m) : i < j

\* an empty item and a sibling that is no item stand before the third child,
\* which is the second item
C23_Witness ==
    /\ extracts >= 1
    /\ tree = E("OL", {}, << E("LI", {}, << >>), E("DIV", {}, << T(<< "x" >>) >>),
                             E("LI", {}, << T(<< "a" >>) >>) >>)
    /\ output = << "x", "2", ".", " ", "a" >>

RECURSIVE LinesOf(_)
\* a text split at its newlines
LinesOf(a) ==
    LET cut == {k \in 1..Len(a) : a[k] = "\n"}
        first == CHOOSE k \in cut : \A j \in cut : k <= j
    IN  IF cut = {} THEN << a >>
        ELSE << SubSeq(a, 1, first - 1) >> \o LinesOf(SubSeq(a, first + 1, Len(a)))

Dashes(line) == Cardinality({k \in 1..Len(line) : line[k] = "---"})

\* the rows of a table holding a header cell
HeaderRows(table) ==
    {j \in 1..Len(table.kids) : \E c \in 1..Len(table.kids[j].kids) :
                                   table.kids[j].kids[c].tag = "TH"}

\* C24: the separator row stands directly under the first row with header
\* cells, with one `---` per cell of that row, and nowhere else.
C24_HeaderSeparator ==
    (extracts >= 1 /\ tree.tag = "TABLE" /\ tree \in TableTrees) =>
       LET lines == LinesOf(output)
           seps == {k \in 1..Len(lines) : Dashes(lines[k]) > 0}
           hs == HeaderRows(tree)
           h == CHOOSE j \in hs : \A k \in hs : j <= k
       IN  IF hs = {} THEN seps = {}
           ELSE /\ seps = {h + 1}
                /\ Dashes(lines[h + 1]) = Len(tree.kids[h].kids)

\* where a math span with source s and the given delimiter stands in a text
MathAt(a, mark) ==
    {i \in 1..(Len(a) - 2) : a[i] = mark /\ a[i + 1] = "s" /\ a[i + 2] = mark}

\* C25: inline math with source s is `$s$` where the node stands; display
\* math is `$$s$$` with a blank line between it and whatever is serialized
\* before it and after it.
C25_MathSourceRecovery ==
    extracts >= 1 =>
       /\ \A m \in {Katex, Mjx("")} :
             tree \in MathTreesOf(m) =>
                /\ Cardinality(MathAt(output, "$")) = 1
                /\ Len(output) > 3 =>
                      \E i \in MathAt(output, "$") :
                         /\ i > 1 /\ output[i - 1] \in {"a", "\n"}
                         /\ i + 3 <= Len(output) /\ output[i + 3] \in {"b", "\n"}
       /\ \A m \in {KatexDisplay, Mjx("true")} :
             tree \in MathTreesOf(m) =>
                /\ Cardinality(MathAt(output, "$$")) = 1
                /\ \A i \in MathAt(output, "$$") :
                      /\ i > 1 =>
                            /\ i >= 4
                            /\ SubSeq(output, i - 3, i - 1) = << "a", "\n", "\n" >>
                      /\ i + 2 < Len(output) =>
                            /\ i + 5 <= Len(output)
                            /\ SubSeq(output, i + 3, i + 5) = << "\n", "\n", "b" >>

\* C26: a code block is fenced with the language of its own class, else of a
\* descendant's class, else of its parent's class, else with no language, and
\* its body is the line texts joined by newlines.
C26_FenceLanguage ==
    extracts >= 1 =>
       \A pc \in {{}, {"language-c"}}, bc \in {{}, {"language-js"}},
          wc \in {{}, {"language-py"}}, label \in {"", "highlighted-code"} :
          (/\ tree = CodeTree(pc, bc, label, wc, TRUE)
           /\ (label # "" \/ pc \cup bc \cup wc # {})) =>
             output = << FENCE >>
                      \o (IF bc # {} THEN << "js" >>
                          ELSE IF wc # {} THEN << "py" >>
                          ELSE IF pc # {} THEN << "c" >> ELSE << >>)
                      \o << "\n", "a", "\n", "b", "\n", FENCE >>

Occurrences(seq, a) == Cardinality({i \in 1..Len(seq) : seq[i] = a})

\* the text atoms below the elements of t that carry a language class
RECURSIVE codeTexts(_)
codeTexts(n) ==
    IF ~IsEl(n) THEN {}
    ELSE IF LangOf(n) # ""
       THEN {domText(n)[i] : i \in 1..Len(domText(n))} \ WS
       ELSE UNION {codeTexts(n.kids[i]) : i \in 1..Len(n.kids)}

\* C27: the text below an element carrying a language class appears in the
\* output exactly once, with or without a line-structured code body.
C27_CodeTextOnce ==
    (extracts >= 1 /\ tree \in CodeTrees) =>
       \A a \in codeTexts(tree) : Occurrences(output, a) = 1

\* C28: the earliest matching rule decides. A node with a skip-list tag or a
\* copy-control class gives the empty string whatever else it matches; a
\* diagram container gives its diagram fence (nothing without a stored
\* source) and a table its rows, also when they carry a language class.
C28_Precedence ==
    (extracts >= 1 /\ tree \in OverlapTrees) =>
       IF tree.tag \in {"SVG", "STYLE"} \/ "custom-copy-btn" \in tree.cls
          THEN intermediate = << >>
       ELSE IF "cascade-mermaid-container" \in tree.cls
          THEN intermediate =
                  (IF tree.src = << >> THEN << >>
                   ELSE << "\n", FENCE, "mermaid", "\n" >> \o tree.src
                        \o << "\n", FENCE, "\n" >>)
       ELSE IF tree.tag = "TABLE"
          THEN intermediate = << "\n", "|", " ", "a", " ", "|", "\n", "\n" >>
       ELSE "language-js" \in tree.cls =>
               intermediate = << "\n", FENCE, "js", "\n", "a", "\n", FENCE, "\n" >>

C28_Witness ==
    /\ extracts >= 1
    /\ tree \in OverlapTrees
    /\ tree.tag = "TABLE"
    /\ tree.cls = {"language-js", "cascade-mermaid-container", "custom-copy-btn"}
    /\ tree.src # << >>
    /\ intermediate = << >>

\* ------------------------------------------------------------------------
\* Scheduler flag, convergence and root replacement
\* ------------------------------------------------------------------------
\* flushScan callbacks requested and not yet run
Outstanding == rafQueue + frameRun

\* C31: `scheduled` is true exactly when one flushScan callback is
\* outstanding, and never more than one is outstanding, also after bindRoot
\* has switched roots with a flush requested.
C31_FlagMatchesCallback ==
    /\ scheduled <=> Outstanding = 1
    /\ Outstanding <= 1

\* a step in which bindRoot switches the active root
BindStep == activeRoot' # activeRoot

\* C39: when the panel element of the document is not the active root, the
\* next root-check tick binds it: bindRoot makes it the active root, scans it
\* in full and leaves one observer, on the new element; no observer of
\* another element is ever live.
C39_RootReplacement ==
    /\ [][BindStep =>
             /\ activeRoot' = docPanel /\ docPanel # None
             /\ docPanel \in fullScans'
             /\ liveObservers' = {activeObserver'}
             /\ activeObserver'.root = docPanel]_vars
    /\ [](\A o \in liveObservers : o.root = activeRoot)
    /\ \A p \in Roots :
          (docPanel = p /\ activeRoot # p /\ rootCheckTimer # Null
             /\ nextId <= MaxBinds)
          ~> (activeRoot = p \/ docPanel # p)

\* the host has replaced the bound panel p1 by p2 and the tick has bound p2
C39_Witness ==
    /\ activeRoot = "p2" /\ docPanel = "p2"
    /\ fullScans = {"p1", "p2"}
    /\ liveObservers = {[kind |-> "observer", id |-> 2, root |-> "p2"]}

\* ------------------------------------------------------------------------
\* Diagram renderer: cached sources and the rendering flag
\* ------------------------------------------------------------------------
\* C33: whenever a diagram node is marked rendered, the source cached on the
\* node equals the source cached on its result container, also while a
\* re-render for a changed source is in flight.
C33_CachedSourcesAgree ==
    \A el \in DiagEls :
       dAttr[el] => /\ dContainer[el].exists
                    /\ dSourceProp[el] = dContainer[el].source

\* C34: the rendering flag of a node is set exactly while an attempt on it is
\* under way; the step that ends an attempt, as rendered, failed or engine
\* not ready, clears it; and with the awaited promises settling a set flag is
\* cleared.
C34_FlagCleared ==
    /\ [](\A el \in DiagEls : dRendering[el] <=> InflightOf(el) # {})
    /\ [][DiagEnded => ~dRendering'[dLastEnd'.el]]_vars
    /\ \A el \in DiagEls : dRendering[el] ~> ~dRendering[el]

\* an attempt on d1 has ended at `engine not ready` and left the flag clear
C34_Witness ==
    /\ dLastEnd.el = "d1" /\ dLastEnd.how = "notready"
    /\ ~dRendering["d1"]
    /\ dAttempts >= 1

\* ------------------------------------------------------------------------
\* Delimiter scan: losslessness and rejected openers
\* ------------------------------------------------------------------------
RECURSIVE Rejoined(_)
\* the data of the text tokens and left + data + right of the math tokens
Rejoined(toks) ==
    IF toks = << >> THEN << >>
    ELSE Head(toks).left \o Head(toks).data \o Head(toks).right
         \o Rejoined(Tail(toks))

\* C36: splitWithDelimiters returns for every text, each of its tokens takes
\* at least one character of the input (the loop's position grows with every
\* turn), and the tokens put together again are the input; an opener with no
\* closer stays in the text.
C36_Lossless ==
    splitPc = "split" =>
       /\ Rejoined(tokens) = runText
       /\ \A k \in 1..Len(tokens) : TokenLen(tokens[k]) > 0
       /\ Len(tokens) <= Len(runText)

\* `$a$\(`: a formula, then an opener that is never closed
C36_Witness ==
    /\ splitPc = "split"
    /\ runText = << "$", "a", "$", "\\", "(" >>
    /\ tokens = << MathToken(<< "a" >>, DELIMITERS[4]),
                   TextToken(<< "\\", "(" >>) >>

\* a `$` at index i that findNextDelimiter does not take as an opener
RejectedDollar(text, i) ==
    /\ CharAt(text, i) = "$"
    /\ isEscaped(text, i) \/ IsSpace(CharAt(text, i + 1))

\* the text before index o holds letters, blanks, rejected `$` and the
\* backslashes that escape them, and at least one rejected `$`
RejectedBefore(text, o) ==
    /\ \E i \in 0..(o - 1) : RejectedDollar(text, i)
    /\ \A j \in 0..(o - 1) :
          \/ CharAt(text, j) \in {"a", " "}
          \/ RejectedDollar(text, j)
          \/ CharAt(text, j) = "\\" /\ CharAt(text, j + 1) = "$"

\* `$a..a$` from index o to index c, its closer not followed by `$`
DollarSpan(text, o, c) ==
    /\ CharAt(text, o) = "$" /\ ~isEscaped(text, o)
    /\ c > o + 1
    /\ \A j \in (o + 1)..(c - 1) : CharAt(text, j) = "a"
    /\ CharAt(text, c) = "$" /\ CharAt(text, c + 1) # "$"

\* C37: a `$...$` span that comes after a rejected `$` is a math token of
\* the split.
C37_LaterMathFound ==
    splitPc = "split" =>
       \A o \in 0..Len(runText), c \in 0..Len(runText) :
          (RejectedBefore(runText, o) /\ DollarSpan(runText, o, c)) =>
             \E k \in MathTokens :
                /\ TokenStart(tokens, k) = o
                /\ CloserAt(tokens, k) = c

\* ------------------------------------------------------------------------
\* Underscore restoration: what it leaves alone
\* ------------------------------------------------------------------------
\* code elements and math containers among the nodes of el
Shielded(ns) == {x \in AllNodes(ns) : x.kind \in {"code", "wrapper"}}

\* an em / strong node with the same content is among the children
KeptIn(n, ns) ==
    \E j \in 1..Len(ns) :
       /\ ns[j].kind = n.kind
       /\ textContent(ns[j]) = textContent(n)
       /\ Shielded(<< ns[j] >>) = Shielded(<< n >>)

\* C38: restoreUnderscoreInDollarMath turns an em / strong child into marker
\* text only if its span lies inside a dollar range of the merged sibling
\* text; every other em / strong child, and every code element and math
\* container of the element, is there afterwards as it was.
C38_RestoreFrame ==
    LET after == restoreUnderscoreInDollarMath(kids)
    IN  /\ \A i \in 1..Len(kids) :
              (kids[i].kind \in {"em", "strong"} /\ ~inDollarMath(kids, i))
                 => KeptIn(kids[i], after)
        /\ Cardinality({j \in 1..Len(after) : after[j].kind \in {"em", "strong"}})
              = Cardinality({i \in 1..Len(kids) :
                               kids[i].kind \in {"em", "strong"}
                               /\ ~inDollarMath(kids, i)})
        /\ Shielded(kids) \subseteq Shielded(after)

\* ------------------------------------------------------------------------
\* The panel at rest
\* ------------------------------------------------------------------------
\* no pending scan, no flush requested, no render in flight
Quiescent ==
    /\ pendingNodes = {} /\ ~scheduled
    /\ rafQueue = 0 /\ frameRun = 0
    /\ dInflight = << >>
    /\ awaiting = << >> /\ microtasks = << >>

\* the node shows a diagram of the source it has now
RenderedCurrent(el) == dAttr[el] /\ dContainer[el].source = dSource[el]

\* the source the node has now is the one recorded as failed
FailedCurrent(el) == ~dAttr[el] /\ dErrorProp[el] = dSource[el]

\* C32: in a panel whose diagram engine is ready, every quiescent state after
\* the bind has each attached diagram node either marked rendered with its
\* current source or with its current source recorded as the last failed one.
C32_StaleContentConverges ==
    (activeRoot # None /\ mermaidReady /\ windowMermaid /\ Quiescent) =>
       \A el \in DiagEls :
          dAttached[el] => RenderedCurrent(el) \/ FailedCurrent(el)

\* a rescan has nothing to do for content that is rendered as it stands
NothingStale ==
    /\ skipRender(PanelMath)
    /\ RenderedCurrent(PanelDiagram) \/ FailedCurrent(PanelDiagram)
          \/ dRendering[PanelDiagram]

\* C35: the nodes the renderers put into the document are reported and
\* schedule rescans; a rescan of content that is rendered as it stands starts
\* no pass and no attempt, and once the host edits have stopped the scheduler
\* comes to rest with an empty pending set and no flush requested.
C35_SelfInducedQuiesce ==
    /\ [][(PanelFlush /\ NothingStale)
             => (microtasks' = microtasks /\ dInflight' = dInflight)]_vars
    /\ [][(PanelMathResume /\ mathText' # mathText) => scheduled']_vars
    /\ [][(PanelRenderDone /\ dAttr'[PanelDiagram]) => scheduled']_vars
    /\ []TextsLeft
    /\ <>[](pendingNodes = {} /\ ~scheduled /\ rafQueue = 0)

\* both renderers have put their output into c1, the rescans they caused are
\* over and the scheduler is at rest
C35_Witness ==
    /\ Quiescent
    /\ mathAttr[PanelMath] /\ mathText[PanelMath].typeset
    /\ RenderedCurrent(PanelDiagram)
    /\ mathSnapshot[PanelMath] = mathText[PanelMath]
    /\ mathText[PanelMath].rev >= 4
    /\ frameFlushes = 1

============================================================================
